---- MODULE Spec2Model ----
(***************************************************************************)
(* RustDDS endpoint core: the Writer engine (src/dds/writer.rs), the       *)
(* writer proxy a Reader keeps per matched Writer                          *)
(* (src/dds/rtps_writer_proxy.rs), and the reliable heartbeat / acknack    *)
(* cycle between one Writer and one remote Reader.                         *)
(*                                                                         *)
(* Three specifications share the variables:                               *)
(*   Spec      the Writer driven by its event loop, AckNacks arbitrary     *)
(*   SpecNet   Writer + datagram network + one remote Reader (FairNet adds *)
(*             the fairness of timers, delivery and acknack handling)      *)
(*   SpecProxy the writer proxy driven through its public operations       *)
(***************************************************************************)
EXTENDS Integers, Sequences, FiniteSets, TLC

\* ------------------------------------------------------------------ bounds
MaxPublish == 2          \* samples published by the Writer
MaxDepth == 1            \* largest History::KeepLast depth drawn
MaxHeartbeatCount == 1   \* i32 heartbeat counter, reduced width (wraps)
MaxNetPublish == 3       \* samples published in SpecNet
MaxLoss == 1             \* datagrams the network may drop (SpecNet)
MaxSn == 3               \* largest sequence number in a writer proxy (SpecProxy)
MaxInstant == 2          \* reception instants of a writer proxy (SpecProxy)
MaxHistoryLen == 3       \* changes held by a history cache (SpecHistory)
MaxChannel == 1          \* capacity of the acknack and SPDP liveness channels
MaxSubmessages == 4      \* submessages of one datagram (SpecReceiver)

\* ----------------------------------------------------------------- helpers
NoSeq == 0               \* SequenceNumber 0: "no sample"
None == "None"

Min(S) == CHOOSE x \in S : \A y \in S : x <= y
Max(S) == CHOOSE x \in S : \A y \in S : x >= y
MinOf(a, b) == IF a <= b THEN a ELSE b
MaxOf(a, b) == IF a >= b THEN a ELSE b

RECURSIVE SortedSeq(_)
SortedSeq(S) == IF S = {} THEN << >>
                ELSE LET m == Min(S) IN << m >> \o SortedSeq(S \ {m})

RECURSIVE Concat(_)
Concat(ss) == IF ss = << >> THEN << >> ELSE Head(ss) \o Concat(Tail(ss))

Range(f) == { f[x] : x \in DOMAIN f }
Indices(s, P(_)) == { i \in 1..Len(s) : P(s[i]) }

\* --------------------------------------------------------------- variables
VARIABLES
  \* Writer (src/dds/writer.rs)
  qos_policies,                  \* [reliability, history]
  last_change_sequence_number,
  first_change_sequence_number,
  heartbeat_message_counter,
  readers,                       \* Vec<RtpsReaderProxy>
  sequence_number_to_instant,    \* BTreeMap<SequenceNumber, Instant>
  key_to_instant,                \* HashMap<u128, Instant>
  dds_cache,                     \* the topic's history cache: set of changes
  timers,                        \* timeouts armed in the timed event handler
  clock,                         \* last value Instant::now() returned
  pc,                            \* "idle" or inside send_all_unsend_messages
  op,                            \* the operation that produced this state
  sent,                          \* submessages handed to the UDP sender by op
  \* network and remote Reader (SpecNet)
  net,                           \* datagrams in flight, Writer -> Reader
  acks,                          \* AckNacks in flight, Reader -> Writer
  lost,                          \* datagrams dropped so far
  \* writer proxy (src/dds/rtps_writer_proxy.rs)
  changes,                       \* HashMap<SequenceNumber, Instant>
  wp_arg,                        \* argument of the last proxy operation
  wp_result,                     \* what it returned
  \* message receiver (src/rtps/message_receiver.rs)
  mr,                            \* the receiver state fields of MessageReceiver
  receiving,                     \* inside the submessage loop of handle_parsed_message
  last_submessage,               \* the submessage the last step handled
  trail,                         \* kinds of the submessages so far of a datagram
                                 \* that opened with a SecurePrefix
  calls,                         \* Reader handlers invoked by the last step
  acknack_channel,               \* acknack_sender: bounded channel to the Writers
  spdp_liveness_channel,         \* spdp_liveness_sender: bounded channel to Discovery
  datagram,                      \* the message handle_parsed_message is working on
                                 \* and where it is in it (SpecDatagram)
  \* history cache (src/structure/history_cache.rs)
  hc_changes,                    \* HistoryCache.changes: Vec<CacheChange>
  hc_arg,                        \* argument of the last history cache operation
  hc_result,                     \* what it returned
  \* serialization (src/common/bit_set.rs)
  bit_set                        \* a BitSetRef, what write_to wrote of it and
                                 \* what read_from made of that

wvars == << qos_policies, last_change_sequence_number, first_change_sequence_number,
            heartbeat_message_counter, readers, sequence_number_to_instant,
            key_to_instant, dds_cache, timers, clock, pc, sent >>
nvars == << net, acks, lost >>
pvars == << changes, wp_arg, wp_result >>
rvars == << mr, receiving, last_submessage, trail, calls, acknack_channel, spdp_liveness_channel,
           datagram >>
hvars == << hc_changes, hc_arg, hc_result >>
svars == << bit_set >>
vars == << wvars, nvars, pvars, rvars, hvars, svars, op >>

\* ------------------------------------------------ reader proxy (per reader)
\* the remote readers of the domain, and the make-up discovery reports for them
GuidPrefixes == { "p1", "p2" }
ReaderGuids == { [guidPrefix |-> p, entityId |-> 1] : p \in GuidPrefixes }
ReaderProfiles(guid) ==
  IF guid.guidPrefix = "p1"
    THEN { [is_reliable |-> TRUE,  unicast |-> {"uc"}, multicast |-> {"mc"}],
           [is_reliable |-> TRUE,  unicast |-> {},     multicast |-> {"mc"}] }
    ELSE { [is_reliable |-> TRUE,  unicast |-> {"uc"}, multicast |-> {}],
           [is_reliable |-> FALSE, unicast |-> {"uc"}, multicast |-> {}] }

NewReaderProxy(guid, reliable, uc, mc) ==
  [ remote_reader_guid |-> guid, is_reliable |-> reliable,
    unicast_locator_list |-> uc, multicast_locator_list |-> mc,
    unsent_changes |-> {}, requested_changes |-> {}, highest_acked |-> 0 ]

unsent_changes(r) == r.unsent_changes

next_unsent_change(r) ==
  IF r.unsent_changes = {} THEN NoSeq ELSE Min(r.unsent_changes)

next_requested_change(r) ==
  IF r.requested_changes = {} THEN NoSeq ELSE Min(r.requested_changes)

can_send(r) == (r.unsent_changes \cup r.requested_changes) # {}

sequence_is_acked(r, seq) ==
  IF r.is_reliable THEN seq <= r.highest_acked ELSE TRUE

remove_unsend_change(r, seq) ==
  [r EXCEPT !.unsent_changes = @ \ {seq}]

unsend_changes_set(r, new_last_seq) ==
  [r EXCEPT !.unsent_changes = @ \cup {new_last_seq}]

add_requested_changes(r, set, held) ==
  [r EXCEPT !.requested_changes = @ \cup (set \cap held)]

acked_changes_set(r, base) ==
  [r EXCEPT !.highest_acked = MaxOf(@, base - 1),
            !.unsent_changes = { s \in @ : s >= base },
            !.requested_changes = { s \in @ : s >= base }]

\* ------------------------------------------------- history cache of a topic
Keys == { 1 }

\* payload and kind of a change are not modelled, nor is the Writer's
\* writer_is_disposed flag, which nothing in the Writer reads
CacheChange(sn, instant) == [ sequence_number |-> sn, instant |-> instant ]

CacheInstants == { c.instant : c \in dds_cache }

\* The by-instant index of the cache: one change per instant.  When several
\* changes carry the same instant the index may answer with any of them.
IndexResolutions ==
  { f \in [CacheInstants -> dds_cache] : \A i \in CacheInstants : f[i].instant = i }

to_topic_add_change(cache, change) == cache \cup {change}

from_topic_get_change(idx, instant) ==
  IF instant \in DOMAIN idx THEN {idx[instant]} ELSE {}

from_topic_remove_change(cache, idx, instant) ==
  cache \ from_topic_get_change(idx, instant)

from_topic_set_change_to_not_alive_disposed(cache, idx, instant) == cache

\* ------------------------------------------------------------------ Writer
is_reliable == qos_policies.reliability = "Reliable"

heartbeat_period == IF is_reliable THEN "Some" ELSE "None"

Histories ==
  { [kind |-> "None", depth |-> 0], [kind |-> "KeepAll", depth |-> 0] }
  \cup { [kind |-> "KeepLast", depth |-> d] : d \in 1..MaxDepth }

QosScenarios ==
  { q \in [ reliability : {"BestEffort", "Reliable"}, history : Histories ] :
      q.reliability = "Reliable" <=> q.history.kind = "KeepLast" }

ReaderIndices == 1..Len(readers)

change_with_sequence_number_is_acked_by_all(sequence_number) ==
  \A i \in ReaderIndices : sequence_is_acked(readers[i], sequence_number)

\* index of the first reader proxy that can send, 0 when there is none
get_some_reader_with_unsent_messages ==
  LET S == { i \in ReaderIndices : can_send(readers[i]) }
  IN IF S = {} THEN 0 ELSE Min(S)

\* index of the matched reader proxy with this GUID, 0 when there is none
matched_reader_lookup(guid) ==
  LET S == { i \in ReaderIndices : readers[i].remote_reader_guid = guid }
  IN IF S = {} THEN 0 ELSE Min(S)

can_send_some_wrong == \E i \in ReaderIndices : can_send(readers[i])

can_send_some ==
  IF is_reliable
    THEN change_with_sequence_number_is_acked_by_all(last_change_sequence_number)
         /\ \E i \in ReaderIndices : can_send(readers[i])
    ELSE \E i \in ReaderIndices : can_send(readers[i])

increase_last_change_sequence_number_wrong(n) == n + 2
increase_last_change_sequence_number(n) == n + 1

\* i32 counter of reduced width: MaxHeartbeatCount + 1 wraps to the minimum
increase_heartbeat_counter(n) ==
  IF n = MaxHeartbeatCount THEN -(MaxHeartbeatCount + 1) ELSE n + 1

RECURSIVE increase_heartbeat_counter_times(_, _)
increase_heartbeat_counter_times(n, k) ==
  IF k = 0 THEN n ELSE increase_heartbeat_counter_times(increase_heartbeat_counter(n), k - 1)

writer_set_unsent_changes_wrong(rs, last) ==
  [ i \in DOMAIN rs |-> IF rs[i].is_reliable THEN unsend_changes_set(rs[i], last) ELSE rs[i] ]

writer_set_unsent_changes(rs, last) ==
  [ i \in DOMAIN rs |-> unsend_changes_set(rs[i], last) ]

first_after_publish_wrong(first) == first
first_after_publish(first) == IF first = 0 THEN 1 ELSE first

set_heartbeat_timer_wrong(t) == t \cup {"writer_heartbeat"}

set_heartbeat_timer(t) ==
  IF heartbeat_period = "Some" THEN t \cup {"writer_heartbeat"} ELSE t

set_cache_cleaning_timer(t) == t \cup {"writer_cache_cleaning"}

WriterNew ==
  /\ qos_policies \in QosScenarios
  /\ last_change_sequence_number = 0
  /\ first_change_sequence_number = 0
  /\ heartbeat_message_counter = 1
  /\ readers = << >>
  /\ sequence_number_to_instant = << >>
  /\ key_to_instant = << >>
  /\ dds_cache = {}
  /\ timers = set_heartbeat_timer(set_cache_cleaning_timer({}))
  /\ clock = 0
  /\ pc = "idle"
  /\ sent = << >>

insert_to_history_cache(key, insta) ==
  /\ pc = "idle"
  /\ last_change_sequence_number' =
       increase_last_change_sequence_number(last_change_sequence_number)
  /\ first_change_sequence_number' = first_after_publish(first_change_sequence_number)
  /\ clock' = insta
  /\ dds_cache' = to_topic_add_change(dds_cache,
                     CacheChange(last_change_sequence_number', insta))
  /\ sequence_number_to_instant' =
       [ s \in DOMAIN sequence_number_to_instant \cup {last_change_sequence_number'} |->
           IF s = last_change_sequence_number' THEN insta
           ELSE sequence_number_to_instant[s] ]
  /\ key_to_instant' = [ k \in DOMAIN key_to_instant \cup {key} |->
                           IF k = key THEN insta ELSE key_to_instant[k] ]
  /\ readers' = writer_set_unsent_changes(readers, last_change_sequence_number')
  /\ sent' = << >>
  /\ op' = "publish"
  /\ UNCHANGED << qos_policies, heartbeat_message_counter, timers, pc >>

\* DataWriter::write / dispose reaching the Writer through its channel;
\* Instant::now() is monotonic but may return the value it returned before
\* (instant 0 is the construction of the Writer).
PublishUpTo(n) ==
  /\ last_change_sequence_number < n
  /\ \E key \in Keys, insta \in {clock, clock + 1} \ {0} :
       insert_to_history_cache(key, insta)

Publish == PublishUpTo(MaxPublish)

handle_not_alive_disposed_cache_change(key) ==
  /\ pc = "idle"
  /\ IF key \in DOMAIN key_to_instant
       THEN \E idx \in IndexResolutions :
              dds_cache' = from_topic_set_change_to_not_alive_disposed(
                              dds_cache, idx, key_to_instant[key])
       ELSE dds_cache' = dds_cache
  /\ sent' = << >>
  /\ op' = "dispose"
  /\ UNCHANGED << qos_policies, last_change_sequence_number, first_change_sequence_number,
                  heartbeat_message_counter, readers, sequence_number_to_instant,
                  key_to_instant, timers, clock, pc >>

Dispose == \E key \in Keys : handle_not_alive_disposed_cache_change(key)

\* BTreeMap<&Instant, &SequenceNumber> built in remove_all_acked_changes_but_keep_depth:
\* keyed by instant, a later insert with the same instant replaces the earlier
acked_by_all_readers ==
  LET acked == { sq \in DOMAIN sequence_number_to_instant :
                   change_with_sequence_number_is_acked_by_all(sq) }
      insts == { sequence_number_to_instant[sq] : sq \in acked }
  IN [ i \in insts |-> Max({ sq \in acked : sequence_number_to_instant[sq] = i }) ]

\* returns the removed sequence numbers and the cache after the removals
remove_all_acked_changes_but_keep_depth(depth, idx) ==
  LET n == Cardinality(DOMAIN acked_by_all_readers)
      amount_need_to_remove == n - depth
      order == SortedSeq(DOMAIN acked_by_all_readers)
      victims == IF n <= depth THEN {}
                 ELSE { order[j] : j \in 1..amount_need_to_remove }
      hit == { i \in victims : i \in DOMAIN idx }
  IN [ removed |-> { idx[i].sequence_number : i \in hit },
       cache |-> dds_cache \ { idx[i] : i \in hit } ]

handle_cache_cleaning ==
  /\ pc = "idle"
  /\ "writer_cache_cleaning" \in timers
  /\ \E idx \in IndexResolutions :
       LET res == CASE qos_policies.history.kind = "None" ->
                         remove_all_acked_changes_but_keep_depth(0, idx)
                    [] qos_policies.history.kind = "KeepAll" ->
                         [ removed |-> {}, cache |-> dds_cache ]
                    [] qos_policies.history.kind = "KeepLast" ->
                         remove_all_acked_changes_but_keep_depth(
                           qos_policies.history.depth, idx)
       IN /\ dds_cache' = res.cache
          /\ sequence_number_to_instant' =
               [ s \in DOMAIN sequence_number_to_instant \ res.removed |->
                   sequence_number_to_instant[s] ]
  /\ timers' = set_cache_cleaning_timer(timers)
  /\ sent' = << >>
  /\ op' = "clean"
  /\ UNCHANGED << qos_policies, last_change_sequence_number, first_change_sequence_number,
                  heartbeat_message_counter, readers, key_to_instant,
                  clock, pc >>

\* ---- what the Writer hands to the UDP sender: one record per datagram
get_heartbeat_msg ==
  << first_change_sequence_number, last_change_sequence_number, heartbeat_message_counter >>

Datagram(guid, chan, sn, hb) ==
  [ to |-> guid, chan |-> chan, data |-> sn, heartbeat |-> hb ]

\* Message::add_data_msg: the Data submessage of the change with this number
add_data_msg(seqnum, idx) ==
  IF seqnum \in DOMAIN sequence_number_to_instant
     /\ sequence_number_to_instant[seqnum] \in DOMAIN idx
    THEN seqnum ELSE NoSeq

unsent_in_tick_order(r) == SortedSeq(unsent_changes(r))

\* datagrams of one reader in a heartbeat tick (first loop of the handler)
TickDatagrams(r, idx) ==
  LET order == unsent_in_tick_order(r)
      one(seqnum) ==
        (IF r.unicast_locator_list # {}
           THEN << Datagram(r.remote_reader_guid, "unicast",
                            add_data_msg(seqnum, idx), get_heartbeat_msg) >>
           ELSE << >>)
        \o (IF r.multicast_locator_list # {}
              THEN << Datagram(r.remote_reader_guid, "multicast", NoSeq, get_heartbeat_msg) >>
              ELSE << >>)
      bare ==
        (IF r.unicast_locator_list # {}
           THEN << Datagram(r.remote_reader_guid, "unicast", NoSeq, get_heartbeat_msg) >>
           ELSE << >>)
        \o (IF r.multicast_locator_list # {}
              THEN << Datagram(r.remote_reader_guid, "multicast", NoSeq, get_heartbeat_msg) >>
              ELSE << >>)
  IN IF unsent_changes(r) = {} THEN bare
     ELSE Concat([ j \in 1..Len(order) |-> one(order[j]) ])

\* the sequence numbers collected for one reader in the tick: all its unsent
TickSeqnums(r) == unsent_changes(r)

increase_heartbeat_counter_and_remove_unsend_sequence_numbers(n, sequenceNumbersCount) ==
  IF sequenceNumbersCount = 0 THEN increase_heartbeat_counter(n)
  ELSE increase_heartbeat_counter_times(n, sequenceNumbersCount)

RECURSIVE TickCounter(_, _)
TickCounter(n, rs) ==
  IF rs = << >> THEN n
  ELSE TickCounter(
         increase_heartbeat_counter_and_remove_unsend_sequence_numbers(
           n, Cardinality(TickSeqnums(Head(rs)))),
         Tail(rs))

handle_heartbeat_tick ==
  /\ pc = "idle"
  /\ "writer_heartbeat" \in timers
  /\ \E idx \in IndexResolutions :
       sent' = Concat([ i \in ReaderIndices |-> TickDatagrams(readers[i], idx) ])
  /\ readers' = [ i \in ReaderIndices |->
                    [ readers[i] EXCEPT !.unsent_changes = @ \ TickSeqnums(readers[i]) ] ]
  /\ heartbeat_message_counter' = TickCounter(heartbeat_message_counter, readers)
  /\ timers' = set_heartbeat_timer(timers \ {"writer_heartbeat"})
  /\ op' = "tick"
  /\ UNCHANGED << qos_policies, last_change_sequence_number, first_change_sequence_number,
                  sequence_number_to_instant, key_to_instant,
                  dds_cache, clock, pc >>

\* sequence number of the Data in the message generate_message builds for this
\* reader proxy, NoSeq when it returns None
generate_message(r, idx) ==
  IF ~ can_send(r) THEN NoSeq
  ELSE LET sequenceNumber == next_unsent_change(r)
       IN IF sequenceNumber = NoSeq THEN NoSeq
          ELSE IF sequenceNumber \notin DOMAIN sequence_number_to_instant THEN NoSeq
          ELSE IF sequence_number_to_instant[sequenceNumber] \notin DOMAIN idx THEN NoSeq
          ELSE idx[sequence_number_to_instant[sequenceNumber]].sequence_number

\* one iteration of the loop of send_all_unsend_messages
send_next_unsend_message ==
  /\ pc = "drain"
  /\ get_some_reader_with_unsent_messages # 0
  /\ \E idx \in IndexResolutions :
       LET i == get_some_reader_with_unsent_messages
           reader == readers[i]
           rem_sequece_number == next_unsent_change(reader)
           message == generate_message(reader, idx)
           message_sequence_numbers == IF message = NoSeq THEN {} ELSE {message}
           buffers ==
             IF message = NoSeq THEN << >>
             ELSE (IF reader.unicast_locator_list # {}
                     THEN << Datagram(reader.remote_reader_guid, "unicast", message, << >>) >>
                     ELSE << >>)
                  \o (IF reader.multicast_locator_list # {}
                        THEN << Datagram(reader.remote_reader_guid, "multicast", message, << >>) >>
                        ELSE << >>)
           removed1 == [ readers EXCEPT ![i] = remove_unsend_change(@, rem_sequece_number) ]
           j == matched_reader_lookup(reader.remote_reader_guid)
           removed2 == [ removed1 EXCEPT ![j].unsent_changes = @ \ message_sequence_numbers ]
       IN /\ sent' = sent \o buffers
          /\ IF rem_sequece_number # NoSeq
               THEN /\ readers' = removed2
                    /\ heartbeat_message_counter' =
                         increase_heartbeat_counter_and_remove_unsend_sequence_numbers(
                           heartbeat_message_counter, Cardinality(message_sequence_numbers))
               ELSE UNCHANGED << readers, heartbeat_message_counter >>
  /\ pc' = IF \E i \in DOMAIN readers' : can_send(readers'[i]) THEN "drain" ELSE "idle"
  /\ op' = "drain"
  /\ UNCHANGED << qos_policies, last_change_sequence_number, first_change_sequence_number,
                  sequence_number_to_instant, key_to_instant,
                  dds_cache, timers, clock >>

send_all_unsend_messages ==
  /\ pc = "idle"
  /\ pc' = IF can_send_some THEN "drain" ELSE "idle"
  /\ sent' = << >>
  /\ op' = "send_all"
  /\ UNCHANGED << qos_policies, last_change_sequence_number, first_change_sequence_number,
                  heartbeat_message_counter, readers, sequence_number_to_instant,
                  key_to_instant, dds_cache, timers, clock >>

\* ---- AckNack handling
AckNack(reader_id, base, set) ==
  [ reader_id |-> reader_id, reader_sn_state |-> [ base |-> base, set |-> set ] ]

ack_nack_is_negative_wrong(an) == FALSE

test_if_ack_nack_contains_not_recieved_sequence_numbers(an) ==
  an.reader_sn_state.set # {}

readers_after_ack_nack_wrong(guid_prefix, an) ==
  LET i == matched_reader_lookup([guidPrefix |-> guid_prefix, entityId |-> an.reader_id])
  IN IF i = 0 THEN readers
     ELSE IF test_if_ack_nack_contains_not_recieved_sequence_numbers(an)
       THEN [ readers EXCEPT ![i] = add_requested_changes(
                 @, an.reader_sn_state.set, DOMAIN sequence_number_to_instant) ]
       ELSE [ readers EXCEPT ![i] = acked_changes_set(@, an.reader_sn_state.base) ]

readers_after_ack_nack(guid_prefix, an) ==
  LET i == matched_reader_lookup([guidPrefix |-> guid_prefix, entityId |-> an.reader_id])
  IN IF ~ is_reliable THEN readers
     ELSE IF i = 0 THEN readers
     ELSE IF test_if_ack_nack_contains_not_recieved_sequence_numbers(an)
       THEN [ readers EXCEPT ![i] = add_requested_changes(
                 @, an.reader_sn_state.set, DOMAIN sequence_number_to_instant) ]
       ELSE [ readers EXCEPT ![i] = acked_changes_set(@, an.reader_sn_state.base) ]

handle_ack_nack(guid_prefix, an) ==
  /\ pc = "idle"
  /\ readers' = readers_after_ack_nack(guid_prefix, an)
  /\ sent' = << >>
  /\ op' = "acknack"
  /\ UNCHANGED << qos_policies, last_change_sequence_number, first_change_sequence_number,
                  heartbeat_message_counter, sequence_number_to_instant, key_to_instant,
                  dds_cache, timers, clock, pc >>

\* AckNacks a remote participant may send: any base, any set at or above it
AckNackSeqs == 1..(MaxPublish + 1)
AckNacks ==
  { AckNack(id, base, set) :
      id \in {1}, base \in AckNackSeqs, set \in SUBSET AckNackSeqs }
WellFormedAckNack(an) ==
  \A s \in an.reader_sn_state.set : s >= an.reader_sn_state.base

ReceiveAckNack ==
  \E guid_prefix \in GuidPrefixes, an \in AckNacks :
    /\ WellFormedAckNack(an)
    /\ handle_ack_nack(guid_prefix, an)

\* ---- matching
matched_reader_add(reader_proxy) ==
  /\ pc = "idle"
  /\ matched_reader_lookup(reader_proxy.remote_reader_guid) = 0
  /\ readers' = Append(readers, reader_proxy)
  /\ sent' = << >>
  /\ op' = "match"
  /\ UNCHANGED << qos_policies, last_change_sequence_number, first_change_sequence_number,
                  heartbeat_message_counter, sequence_number_to_instant, key_to_instant,
                  dds_cache, timers, clock, pc >>

MatchedReaderAdd ==
  \E guid \in ReaderGuids : \E p \in ReaderProfiles(guid) :
    matched_reader_add(NewReaderProxy(guid, p.is_reliable, p.unicast, p.multicast))

\* ------------------------------------------------------ message receiver
\* src/rtps/message_receiver.rs.  GUID prefixes, entity ids, timestamps and
\* locators are names; a locator list is the set of its locators.
GUID_PREFIX_UNKNOWN == "UNKNOWN"
own_guid_prefix == "own"

\* No message being handled.  at: "returned", "decode" (about to hand the
\* message to decode_rtps_message), "decoded" (about to call
\* handle_parsed_message on the result) or "loop" (in the submessage loop);
\* submessages: how many the plaintext message has; left: how many of them
\* the loop has not handled yet; layers: SecureRTPSPrefix wrappings still
\* around the message; wrapped: how many it arrived with; previous: the
\* number of submessages of the message handled before this one; pending:
\* the length of secure_receiver_state that message left behind; held: the
\* receiver's thread holds the guard of the security plugins' mutex; relock:
\* it has called lock() while holding the guard; locks: the lock() calls of
\* the step that led here.
NoDatagram ==
  [ at |-> "returned", submessages |-> 0, left |-> 0, layers |-> 0, wrapped |-> 0,
    previous |-> 0, pending |-> 0, held |-> FALSE, relock |-> FALSE, locks |-> 0 ]

\* MessageReceiver::new: nothing received yet.
MessageReceiverNew(security_plugins) ==
  [ security_plugins |-> security_plugins,
    source_guid_prefix |-> GUID_PREFIX_UNKNOWN,
    dest_guid_prefix |-> GUID_PREFIX_UNKNOWN,
    unicast_reply_locator_list |-> {"Invalid"},
    multicast_reply_locator_list |-> {"Invalid"},
    source_timestamp |-> None,
    submessage_count |-> 0,
    secure_receiver_state |-> << >> ]

\* ---- entities and submessages
ENTITYID_UNKNOWN == "ENTITYID_UNKNOWN"
SPDP_BUILTIN_PARTICIPANT_WRITER == "SPDP_BUILTIN_PARTICIPANT_WRITER"
SPDP_BUILTIN_PARTICIPANT_READER == "SPDP_BUILTIN_PARTICIPANT_READER"
P2P_BUILTIN_PARTICIPANT_STATELESS_WRITER == "P2P_BUILTIN_PARTICIPANT_STATELESS_WRITER"
P2P_BUILTIN_PARTICIPANT_STATELESS_READER == "P2P_BUILTIN_PARTICIPANT_STATELESS_READER"

\* available_readers: the local Readers by entity id, each with the entity
\* ids of its matched writers.  Two user Readers matched to writer "w1" and
\* the two built-in Readers, which have no matched writer.
available_readers ==
  [ eid \in { "r1", "r2", SPDP_BUILTIN_PARTICIPANT_READER,
              P2P_BUILTIN_PARTICIPANT_STATELESS_READER } |->
      IF eid \in { "r1", "r2" } THEN { "w1" } ELSE {} ]

contains_writer(reader_id, writer_id) == writer_id \in available_readers[reader_id]

\* reader_mut: Some(reader) as << reader >>, None as << >>
reader_mut(reader_id) ==
  IF reader_id \in DOMAIN available_readers THEN << reader_id >> ELSE << >>

\* A submessage: its kind and the fields the receiver reads ("-" where the
\* kind has no such field).  payload_ok tells whether the payload of a Data
\* or DataFrag decodes and deserializes.
Submessage(kind, writer_id, reader_id, guid_prefix, timestamp, multicast_flag, multicast_locator_list, payload_ok) ==
  [ kind |-> kind, writer_id |-> writer_id, reader_id |-> reader_id,
    guid_prefix |-> guid_prefix, timestamp |-> timestamp,
    multicast_flag |-> multicast_flag,
    multicast_locator_list |-> multicast_locator_list, payload_ok |-> payload_ok ]

NoSubmessage == Submessage("-", "-", "-", "-", "-", FALSE, << >>, TRUE)

WriterKinds == { "Data", "DataFrag", "Heartbeat", "HeartbeatFrag", "Gap" }
ReaderKinds == { "AckNack", "NackFrag" }
InterpreterKinds == { "InfoTimestamp", "InfoSource", "InfoReply", "InfoDestination" }

WriterSubmessages ==
  { Submessage(k, w, r, "-", "-", FALSE, << >>, TRUE) :
      k \in WriterKinds,
      w \in { "w1", SPDP_BUILTIN_PARTICIPANT_WRITER,
              P2P_BUILTIN_PARTICIPANT_STATELESS_WRITER },
      r \in { ENTITYID_UNKNOWN, "r1", "r9" } }
  \cup { Submessage(k, "w1", "r1", "-", "-", FALSE, << >>, FALSE) :
           k \in { "Data", "DataFrag" } }
  \cup { Submessage("Data", SPDP_BUILTIN_PARTICIPANT_WRITER, ENTITYID_UNKNOWN,
                     "-", "-", FALSE, << >>, FALSE) }

ReaderSubmessages ==
  { Submessage(k, "-", "-", "-", "-", FALSE, << >>, TRUE) : k \in ReaderKinds }

\* the interpreter submessages, then the security submessages
Submessages ==
  WriterSubmessages \cup ReaderSubmessages
  \cup { Submessage("InfoTimestamp", "-", "-", "-", t, FALSE, << >>, TRUE) :
      t \in { None, "ts" } }
  \cup { Submessage("InfoSource", "-", "-", "src2", "-", FALSE, << >>, TRUE) }
  \cup { Submessage("InfoReply", "-", "-", "-", "-", f, << {"mc"} >>, TRUE) :
           f \in BOOLEAN }
  \cup { Submessage("InfoDestination", "-", "-", g, "-", FALSE, << >>, TRUE) :
           g \in { own_guid_prefix, "other", GUID_PREFIX_UNKNOWN } }
  \cup { Submessage(k, "-", "-", "-", "-", FALSE, << >>, TRUE) :
           k \in { "SecureBody", "SecurePrefix", "SecurePostfix",
                   "SecureRTPSPrefix", "SecureRTPSPostfix" } }

\* ---- reset and the interpreter submessages
reset_keeps_count(m) ==
  [ m EXCEPT !.source_guid_prefix = GUID_PREFIX_UNKNOWN,
             !.dest_guid_prefix = GUID_PREFIX_UNKNOWN,
             !.unicast_reply_locator_list = {},
             !.multicast_reply_locator_list = {},
             !.source_timestamp = None,
             !.secure_receiver_state = << >> ]

reset_keeps_secure_state(m) ==
  [ m EXCEPT !.source_guid_prefix = GUID_PREFIX_UNKNOWN,
             !.dest_guid_prefix = GUID_PREFIX_UNKNOWN,
             !.unicast_reply_locator_list = {},
             !.multicast_reply_locator_list = {},
             !.source_timestamp = None,
             !.submessage_count = 0 ]

reset_wrong(m) == [ m EXCEPT !.submessage_count = 0, !.secure_receiver_state = << >> ]

reset(m) ==
  [ m EXCEPT !.source_guid_prefix = GUID_PREFIX_UNKNOWN,
             !.dest_guid_prefix = GUID_PREFIX_UNKNOWN,
             !.unicast_reply_locator_list = {},
             !.multicast_reply_locator_list = {},
             !.source_timestamp = None,
             !.submessage_count = 0,
             !.secure_receiver_state = << >> ]

handle_interpreter_submessage(m, interp_subm) ==
  CASE interp_subm.kind = "InfoTimestamp" ->
         [ m EXCEPT !.source_timestamp = interp_subm.timestamp ]
    [] interp_subm.kind = "InfoSource" ->
         [ m EXCEPT !.source_guid_prefix = interp_subm.guid_prefix,
                    !.unicast_reply_locator_list = {},
                    !.multicast_reply_locator_list = {},
                    !.source_timestamp = None ]
    [] interp_subm.kind = "InfoReply" ->
         [ m EXCEPT !.unicast_reply_locator_list = { "uc" },
                    !.multicast_reply_locator_list =
                       IF interp_subm.multicast_flag
                            /\ interp_subm.multicast_locator_list # << >>
                         THEN Head(interp_subm.multicast_locator_list)
                         ELSE {} ]
    [] interp_subm.kind = "InfoDestination" ->
         [ m EXCEPT !.dest_guid_prefix =
                       IF interp_subm.guid_prefix = GUID_PREFIX_UNKNOWN
                         THEN own_guid_prefix ELSE interp_subm.guid_prefix ]

\* ---- entity submessages.  rx is the receiver with what it talks to:
\* [ mr, calls, acknack_channel, spdp_liveness_channel ].
\* SyncSender::try_send: Full is an error the receiver logs; nothing is queued
try_send_wrong(channel, x) ==
  IF Len(channel) < MaxChannel THEN Append(channel, x)
  ELSE Append(Tail(channel), x)

try_send(channel, x) ==
  IF Len(channel) < MaxChannel THEN Append(channel, x) ELSE channel

not_for_this_participant_wrong(m) == FALSE

\* the destination test that opens both entity handlers
not_for_this_participant(m) ==
  m.dest_guid_prefix # own_guid_prefix /\ m.dest_guid_prefix # GUID_PREFIX_UNKNOWN

\* the Readers a writer submessage is handed to
target_readers(submessage) ==
  LET matched == { r \in DOMAIN available_readers :
                     contains_writer(r, submessage.writer_id) }
      spdp == IF submessage.writer_id = SPDP_BUILTIN_PARTICIPANT_WRITER
                THEN DOMAIN available_readers \cap { SPDP_BUILTIN_PARTICIPANT_READER }
                ELSE {}
      stateless ==
        IF submessage.writer_id = P2P_BUILTIN_PARTICIPANT_STATELESS_WRITER
          THEN DOMAIN available_readers \cap { P2P_BUILTIN_PARTICIPANT_STATELESS_READER }
          ELSE {}
      known == Range(reader_mut(submessage.reader_id))
  IN CASE submessage.kind = "Data" ->
            IF submessage.reader_id = ENTITYID_UNKNOWN
              THEN matched \cup spdp \cup stateless ELSE known
       [] submessage.kind = "DataFrag" ->
            IF submessage.reader_id = ENTITYID_UNKNOWN
              THEN matched \cup spdp ELSE known
       [] submessage.kind \in { "Heartbeat", "HeartbeatFrag" } ->
            IF submessage.reader_id = ENTITYID_UNKNOWN THEN matched ELSE known
       [] submessage.kind = "Gap" -> known

reader_handler(kind) ==
  CASE kind = "Data" -> "handle_data_msg"
    [] kind = "DataFrag" -> "handle_datafrag_msg"
    [] kind = "Heartbeat" -> "handle_heartbeat_msg"
    [] kind = "HeartbeatFrag" -> "handle_heartbeatfrag_msg"
    [] kind = "Gap" -> "handle_gap_msg"

spdp_bypass_wrong(submessage) ==
  /\ submessage.kind = "Data"
  /\ submessage.writer_id = SPDP_BUILTIN_PARTICIPANT_WRITER
  /\ submessage.payload_ok
  /\ target_readers(submessage) # {}

\* the bypass lane: a Data of the SPDP writer, whatever became of it
spdp_bypass(submessage) ==
  /\ submessage.kind = "Data"
  /\ submessage.writer_id = SPDP_BUILTIN_PARTICIPANT_WRITER

\* ---- the security plugins' mutex, for a record with the fields held,
\* relock and locks
lock_plugins(g) ==
  [ g EXCEPT !.relock = @ \/ g.held, !.held = TRUE, !.locks = @ + 1 ]

drop_guard_wrong(g) == g

\* drop(sec_plugins)
drop_guard(g) == [ g EXCEPT !.held = FALSE ]

\* a guard still owned where its scope ends is released there
end_scope(g) == [ g EXCEPT !.held = FALSE ]

\* decode_and_handle_data and decode_and_handle_datafrag, called for every
\* target reader: get_mutex_guard locks the plugins when there are some, and
\* the guard ends with the closure that decodes the payload, before the
\* Reader is called
decode_and_handle(rx, submessage) ==
  IF /\ submessage.kind \in { "Data", "DataFrag" }
     /\ target_readers(submessage) # {}
     /\ rx.mr.security_plugins # None
    THEN end_scope(lock_plugins(rx))
    ELSE rx

handle_writer_submessage(rx, submessage) ==
  IF not_for_this_participant(rx.mr) THEN rx
  ELSE
    [ decode_and_handle(rx, submessage) EXCEPT
        !.calls = @ \cup
          IF submessage.payload_ok
            THEN { [ reader |-> r, handler |-> reader_handler(submessage.kind),
                     writer_id |-> submessage.writer_id,
                     source_guid_prefix |-> rx.mr.source_guid_prefix ] :
                   r \in target_readers(submessage) }
            ELSE {},
        !.spdp_liveness_channel =
          IF spdp_bypass(submessage)
            THEN try_send(@, rx.mr.source_guid_prefix) ELSE @ ]

handle_reader_submessage(rx, submessage) ==
  IF not_for_this_participant(rx.mr) THEN rx
  ELSE IF submessage.kind = "AckNack"
    THEN [ rx EXCEPT !.acknack_channel =
                        try_send(@, << rx.mr.source_guid_prefix, "AckNack" >>) ]
    ELSE rx

\* ---- the secure receiver
\* secure_receiver_state: << >> is None, << p >> is Prefix(p) and << p, s >>
\* is SecureSubmessage(p, s); the prefix p is the SecurePrefix submessage.
\* handle_submessage when take() found None
handle_submessage_in_none(rx, submessage) ==
  CASE submessage.kind \in InterpreterKinds ->
         [ rx EXCEPT !.mr = handle_interpreter_submessage(@, submessage) ]
    [] submessage.kind \in WriterKinds -> handle_writer_submessage(rx, submessage)
    [] submessage.kind \in ReaderKinds -> handle_reader_submessage(rx, submessage)
    [] OTHER ->
         IF not_for_this_participant(rx.mr) THEN rx
         ELSE IF submessage.kind = "SecurePrefix"
           THEN [ rx EXCEPT !.mr.secure_receiver_state = << submessage >> ]
           ELSE rx

\* What the security plugins answer (they are not part of this crate):
\* lock is "Ok" or "Poisoned", preprocess is "Err", "InfoSubmessage",
\* "DatawriterSubmessage" or "DatareaderSubmessage", decoded is << >> for a
\* failed decode and << submessage >> for a decoded submessage.
SecurityAnswers ==
  { [ lock |-> "Poisoned", preprocess |-> "Err", decoded |-> << >> ] }
  \cup { [ lock |-> "Ok", preprocess |-> k, decoded |-> << >> ] :
           k \in { "Err", "InfoSubmessage", "DatawriterSubmessage",
                   "DatareaderSubmessage" } }
  \cup { [ lock |-> "Ok", preprocess |-> "DatawriterSubmessage", decoded |-> << d >> ] :
           d \in WriterSubmessages }
  \cup { [ lock |-> "Ok", preprocess |-> "DatareaderSubmessage", decoded |-> << d >> ] :
           d \in ReaderSubmessages }

handle_secure_submessage(rx, plugins, encoded_submessage, answer) ==
  IF plugins = None THEN rx
  ELSE
    LET locked == lock_plugins(rx)
    IN IF answer.lock = "Poisoned" THEN end_scope(locked)
       ELSE CASE answer.preprocess = "Err" -> end_scope(locked)
              [] answer.preprocess = "InfoSubmessage" ->
                   handle_submessage_in_none(drop_guard(locked), encoded_submessage)
              [] answer.preprocess = "DatawriterSubmessage" ->
                   IF answer.decoded = << >> THEN end_scope(locked)
                   ELSE handle_writer_submessage(drop_guard(locked), Head(answer.decoded))
              [] answer.preprocess = "DatareaderSubmessage" ->
                   IF answer.decoded = << >> THEN end_scope(locked)
                   ELSE handle_reader_submessage(drop_guard(locked), Head(answer.decoded))

secure_submessage_then_other_wrong(rx, submessage) ==
  handle_submessage_in_none(rx, submessage)

\* state SecureSubmessage and something else than a SecurePostfix: discarded
secure_submessage_then_other(rx, submessage) == rx

handle_submessage(rx, plugins, submessage, answer) ==
  LET state == rx.mr.secure_receiver_state
      taken == [ rx EXCEPT !.mr.secure_receiver_state = << >> ]
  IN CASE Len(state) = 0 -> handle_submessage_in_none(taken, submessage)
       [] Len(state) = 1 ->
            [ taken EXCEPT !.mr.secure_receiver_state = << state[1], submessage >> ]
       [] Len(state) = 2 ->
            IF submessage.kind = "SecurePostfix"
              THEN handle_secure_submessage(taken, plugins, state[2], answer)
              ELSE secure_submessage_then_other(taken, submessage)

\* ------------------------------------------------- the Writer on its own
NetIdle == net = << >> /\ acks = << >> /\ lost = 0
ProxyIdle == changes = << >> /\ wp_arg = 0 /\ wp_result = << >>
ReceiverIdle ==
  /\ mr = MessageReceiverNew(None)
  /\ receiving = FALSE
  /\ last_submessage = NoSubmessage
  /\ trail = << >>
  /\ calls = {}
  /\ acknack_channel = << >>
  /\ spdp_liveness_channel = << >>
  /\ datagram = NoDatagram
HistoryIdle == hc_changes = << >> /\ hc_arg = 0 /\ hc_result = << >>
BitSetIdle == bit_set = [ set |-> << >>, endianness |-> "-", bytes |-> << >>, read |-> << >> ]

Init ==
  WriterNew /\ NetIdle /\ ProxyIdle /\ ReceiverIdle /\ HistoryIdle /\ BitSetIdle /\ op = "new"

Next ==
  \/ (Publish /\ UNCHANGED << nvars, pvars, rvars, hvars, svars >>)
  \/ (Dispose /\ UNCHANGED << nvars, pvars, rvars, hvars, svars >>)
  \/ (handle_cache_cleaning /\ UNCHANGED << nvars, pvars, rvars, hvars, svars >>)
  \/ (handle_heartbeat_tick /\ UNCHANGED << nvars, pvars, rvars, hvars, svars >>)
  \/ (send_all_unsend_messages /\ UNCHANGED << nvars, pvars, rvars, hvars, svars >>)
  \/ (send_next_unsend_message /\ UNCHANGED << nvars, pvars, rvars, hvars, svars >>)
  \/ (ReceiveAckNack /\ UNCHANGED << nvars, pvars, rvars, hvars, svars >>)
  \/ (MatchedReaderAdd /\ UNCHANGED << nvars, pvars, rvars, hvars, svars >>)

Spec == Init /\ [][Next]_vars

\* The Writer as far as AckNack handling reads and writes it: publication,
\* matching, the sending of unsent changes, cleaning and the AckNacks; the
\* heartbeat tick and the disposal of instances stay out of it.
NextAck ==
  \/ (Publish /\ UNCHANGED << nvars, pvars, rvars, hvars, svars >>)
  \/ (handle_cache_cleaning /\ UNCHANGED << nvars, pvars, rvars, hvars, svars >>)
  \/ (send_all_unsend_messages /\ UNCHANGED << nvars, pvars, rvars, hvars, svars >>)
  \/ (send_next_unsend_message /\ UNCHANGED << nvars, pvars, rvars, hvars, svars >>)
  \/ (ReceiveAckNack /\ UNCHANGED << nvars, pvars, rvars, hvars, svars >>)
  \/ (MatchedReaderAdd /\ UNCHANGED << nvars, pvars, rvars, hvars, svars >>)

SpecAck == Init /\ [][NextAck]_vars

\* the loop of send_all_unsend_messages goes on as long as it has a reader
FairAck ==
  SpecAck /\ WF_vars(send_next_unsend_message
                       /\ UNCHANGED << nvars, pvars, rvars, hvars, svars >>)

\* ------------------------------------ writer proxy (rtps_writer_proxy.rs)
SeqNums == 1..MaxSn
Instants == 1..MaxInstant

received_changes_add(ch, seq_num, instant) ==
  [ s \in DOMAIN ch \cup {seq_num} |-> IF s = seq_num THEN instant ELSE ch[s] ]

available_changes_min(ch) == IF DOMAIN ch = {} THEN None ELSE Min(DOMAIN ch)

available_changes_max(ch) == IF DOMAIN ch = {} THEN None ELSE Max(DOMAIN ch)

\* min_sn of changes_are_missing and missing_changes
min_sn(ch) ==
  IF DOMAIN ch = {} THEN 0 ELSE available_changes_min(ch)

changes_are_missing(ch, hb_last_sn) == hb_last_sn > min_sn(ch)

\* the loop of missing_changes over sn_int in from..(to - 1)
RECURSIVE missing_changes_scan(_, _, _)
missing_changes_scan(ch, from, to) ==
  IF from >= to THEN << >>
  ELSE (IF from \notin DOMAIN ch THEN << from >> ELSE << >>)
       \o missing_changes_scan(ch, from + 1, to)

missing_changes(ch, hb_last_sn) ==
  IF ~ changes_are_missing(ch, hb_last_sn) THEN << >>
  ELSE missing_changes_scan(ch, min_sn(ch), hb_last_sn)

irrelevant_keys_wrong(ch, smallest_seqnum) == { s \in DOMAIN ch : s <= smallest_seqnum }

\* the keys irrelevant_changes_up_to removes
irrelevant_keys(ch, smallest_seqnum) == { s \in DOMAIN ch : s < smallest_seqnum }

KeyOrders(S) ==
  { f \in [1..Cardinality(S) -> S] : \A i, j \in 1..Cardinality(S) : f[i] = f[j] => i = j }

\* a HashMap is iterated in an unspecified order: order is one enumeration of
\* the removed keys; the result is the instants in that order
irrelevant_changes_up_to_result(ch, order) == [ i \in DOMAIN order |-> ch[order[i]] ]

irrelevant_changes_up_to_changes(ch, smallest_seqnum) ==
  [ s \in DOMAIN ch \ irrelevant_keys(ch, smallest_seqnum) |-> ch[s] ]

\* ---- the writer proxy driven through its operations (SpecProxy)
WriterParked ==
  /\ qos_policies = [ reliability |-> "BestEffort",
                      history |-> [kind |-> "KeepAll", depth |-> 0] ]
  /\ last_change_sequence_number = 0
  /\ first_change_sequence_number = 0
  /\ heartbeat_message_counter = 1
  /\ readers = << >>
  /\ sequence_number_to_instant = << >>
  /\ key_to_instant = << >>
  /\ dds_cache = {}
  /\ timers = {}
  /\ clock = 0
  /\ pc = "idle"
  /\ sent = << >>

InitProxy ==
  WriterParked /\ NetIdle /\ ProxyIdle /\ ReceiverIdle /\ HistoryIdle /\ BitSetIdle /\ op = "new"

ReceivedChangesAdd ==
  \E seq_num \in SeqNums, instant \in Instants :
    /\ changes' = received_changes_add(changes, seq_num, instant)
    /\ wp_arg' = seq_num
    /\ wp_result' = << >>
    /\ op' = "received_changes_add"

ChangesAreMissing ==
  \E hb_last_sn \in 0..(MaxSn + 1) :
    /\ wp_arg' = hb_last_sn
    /\ wp_result' = changes_are_missing(changes, hb_last_sn)
    /\ op' = "changes_are_missing"
    /\ UNCHANGED changes

MissingChanges ==
  \E hb_last_sn \in 0..(MaxSn + 1) :
    /\ wp_arg' = hb_last_sn
    /\ wp_result' = missing_changes(changes, hb_last_sn)
    /\ op' = "missing_changes"
    /\ UNCHANGED changes

IrrelevantChangesUpTo ==
  \E smallest_seqnum \in 0..(MaxSn + 1) :
    \E order \in KeyOrders(irrelevant_keys(changes, smallest_seqnum)) :
      /\ wp_arg' = smallest_seqnum
      /\ wp_result' = irrelevant_changes_up_to_result(changes, order)
      /\ changes' = irrelevant_changes_up_to_changes(changes, smallest_seqnum)
      /\ op' = "irrelevant_changes_up_to"

NextProxy ==
  \/ (ReceivedChangesAdd /\ UNCHANGED << wvars, nvars, rvars, hvars, svars >>)
  \/ (ChangesAreMissing /\ UNCHANGED << wvars, nvars, rvars, hvars, svars >>)
  \/ (MissingChanges /\ UNCHANGED << wvars, nvars, rvars, hvars, svars >>)
  \/ (IrrelevantChangesUpTo /\ UNCHANGED << wvars, nvars, rvars, hvars, svars >>)

SpecProxy == InitProxy /\ [][NextProxy]_vars

\* ------------------------- Writer, datagram network and one remote Reader
\* The remote Reader keeps its writer proxy in `changes`.  Reader engine: a
\* Data marks received[seq]; a Heartbeat (the Writer never sets Final) is
\* answered with an AckNack of base = min(missing) or hb_last + 1 and
\* set = missing_changes(hb_last).
ReaderInstant == 1

reader_handle_data(ch, d) ==
  IF d.data # NoSeq THEN received_changes_add(ch, d.data, ReaderInstant) ELSE ch

reader_ack_nack(ch, hb) ==
  LET missing == missing_changes(ch, hb[2])
  IN AckNack(1, IF missing # << >> THEN missing[1] ELSE hb[2] + 1, Range(missing))

NetReaderGuid == [guidPrefix |-> "p1", entityId |-> 1]
NetProfiles ==
  { [is_reliable |-> TRUE, unicast |-> {"uc"}, multicast |-> {}],
    [is_reliable |-> TRUE, unicast |-> {"uc"}, multicast |-> {"mc"}] }

InitNet ==
  /\ qos_policies = [ reliability |-> "Reliable",
                      history |-> [kind |-> "KeepLast", depth |-> MaxDepth] ]
  /\ last_change_sequence_number = 0
  /\ first_change_sequence_number = 0
  /\ heartbeat_message_counter = 1
  /\ \E p \in NetProfiles :
       readers = << NewReaderProxy(NetReaderGuid, p.is_reliable, p.unicast, p.multicast) >>
  /\ sequence_number_to_instant = << >>
  /\ key_to_instant = << >>
  /\ dds_cache = {}
  /\ timers = set_heartbeat_timer(set_cache_cleaning_timer({}))
  /\ clock = 0
  /\ pc = "idle"
  /\ sent = << >>
  /\ NetIdle /\ ProxyIdle /\ ReceiverIdle /\ HistoryIdle /\ BitSetIdle /\ op = "new"

NetPublish == PublishUpTo(MaxNetPublish) /\ UNCHANGED << nvars, pvars, rvars, hvars, svars >>

\* the heartbeat period (3 s) is long against the latency of a datagram: a
\* tick finds the datagrams of the previous one delivered or lost
NetTick ==
  /\ net = << >> /\ acks = << >>
  /\ handle_heartbeat_tick
  /\ net' = sent'
  /\ UNCHANGED << acks, lost, pvars, rvars, hvars, svars >>

Deliver ==
  /\ net # << >>
  /\ LET d == Head(net)
         ch == reader_handle_data(changes, d)
     IN /\ changes' = ch
        /\ acks' = IF d.heartbeat # << >>
                     THEN Append(acks, reader_ack_nack(ch, d.heartbeat))
                     ELSE acks
  /\ net' = Tail(net)
  /\ op' = "deliver"
  /\ UNCHANGED << wvars, lost, wp_arg, wp_result, rvars, hvars, svars >>

Lose ==
  /\ net # << >>
  /\ lost < MaxLoss
  /\ net' = Tail(net)
  /\ lost' = lost + 1
  /\ op' = "lose"
  /\ UNCHANGED << wvars, acks, pvars, rvars, hvars, svars >>

NetAckNack ==
  /\ acks # << >>
  /\ handle_ack_nack(NetReaderGuid.guidPrefix, Head(acks))
  /\ acks' = Tail(acks)
  /\ UNCHANGED << net, lost, pvars, rvars, hvars, svars >>

NextNet == NetPublish \/ NetTick \/ Deliver \/ Lose \/ NetAckNack

SpecNet == InitNet /\ [][NextNet]_vars

\* timers fire, datagrams in flight arrive, received AckNacks are handled
FairNet ==
  SpecNet /\ WF_vars(NetTick) /\ WF_vars(Deliver) /\ WF_vars(NetAckNack)

\* ------------------------------------------- message receiver (SpecReceiver)
\* The receiver runs in the event loop thread: it takes one datagram, handles
\* its submessages in order, and only then does the loop turn to the next
\* datagram or to the Writers' end of the acknack channel.
RTPS_MESSAGE_HEADER_SIZE == 20
\* the GUID prefixes a message header can carry
HeaderPrefixes == { "remote" }

InitReceiver ==
  /\ WriterParked /\ NetIdle /\ ProxyIdle /\ HistoryIdle /\ BitSetIdle
  /\ \E security_plugins \in { None, "plugins" } :
       mr = MessageReceiverNew(security_plugins)
  /\ receiving = FALSE
  /\ last_submessage = NoSubmessage
  /\ trail = << >>
  /\ calls = {}
  /\ acknack_channel = << >>
  /\ spdp_liveness_channel = << >>
  /\ datagram = NoDatagram
  /\ op = "new"

\* handle_received_packet on bytes shorter than the header or that do not
\* deserialize: the two early returns
HandleReceivedPacketMalformed ==
  \E len \in { 0, 16, RTPS_MESSAGE_HEADER_SIZE - 1, RTPS_MESSAGE_HEADER_SIZE,
               RTPS_MESSAGE_HEADER_SIZE + 4 },
     parses \in BOOLEAN :
    /\ len < RTPS_MESSAGE_HEADER_SIZE \/ ~ parses
    /\ receiving' = FALSE
    /\ last_submessage' = NoSubmessage
    /\ trail' = << >>
    /\ calls' = {}
    /\ op' = "malformed"
    /\ UNCHANGED << mr, acknack_channel, spdp_liveness_channel >>

\* handle_parsed_message up to its submessage loop.  secure_rtps: the first
\* submessage is a SecureRTPSPrefix; decode is the plugins' answer to
\* decode_rtps_message ("Poisoned" for a poisoned lock), and a decoded
\* message is handled as a parsed message in turn.
HandleParsedMessage ==
  \E guid_prefix \in HeaderPrefixes, secure_rtps \in BOOLEAN,
     decode \in { "Poisoned", "Err", "Ok" }, decoded_prefix \in HeaderPrefixes :
    LET entered(m, prefix) ==
          [ reset(m) EXCEPT !.dest_guid_prefix = own_guid_prefix,
                            !.source_guid_prefix = prefix ]
        loops == ~ secure_rtps \/ (mr.security_plugins # None /\ decode = "Ok")
    IN /\ mr' = IF secure_rtps /\ loops
                  THEN entered(entered(mr, guid_prefix), decoded_prefix)
                  ELSE entered(mr, guid_prefix)
       /\ receiving' = loops
       /\ last_submessage' = NoSubmessage
       /\ trail' = << >>
       /\ calls' = {}
       /\ op' = "handle_parsed_message"
       /\ UNCHANGED << acknack_channel, spdp_liveness_channel >>

\* one turn of the submessage loop: handle_submessage, then the count
HandleSubmessage ==
  /\ receiving
  /\ mr.submessage_count < MaxSubmessages
  /\ \E sm \in Submessages :
       /\ mr.submessage_count = 0 => sm.kind # "SecureRTPSPrefix"
       /\ \E answer \in
              IF Len(mr.secure_receiver_state) = 2 /\ sm.kind = "SecurePostfix"
                   /\ mr.security_plugins # None
                THEN SecurityAnswers
                ELSE { [ lock |-> "Ok", preprocess |-> "Err", decoded |-> << >> ] } :
            LET rx == [ mr |-> mr, calls |-> {},
                        acknack_channel |-> acknack_channel,
                        spdp_liveness_channel |-> spdp_liveness_channel,
                        held |-> FALSE, relock |-> FALSE, locks |-> 0 ]
                out == handle_submessage(rx, mr.security_plugins, sm, answer)
            IN /\ mr' = [ out.mr EXCEPT !.submessage_count = @ + 1 ]
               /\ calls' = out.calls
               /\ acknack_channel' = out.acknack_channel
               /\ spdp_liveness_channel' = out.spdp_liveness_channel
       /\ last_submessage' = sm
       /\ trail' = IF trail # << >>
                       \/ (mr.submessage_count = 0 /\ sm.kind = "SecurePrefix")
                     THEN Append(trail, sm.kind) ELSE trail
  /\ op' = "handle_submessage"
  /\ UNCHANGED receiving

\* the Writers' end of the acknack channel, served by the same thread once
\* the datagram is done
AckNackReceive ==
  /\ acknack_channel # << >>
  /\ acknack_channel' = Tail(acknack_channel)
  /\ receiving' = FALSE
  /\ last_submessage' = NoSubmessage
  /\ trail' = << >>
  /\ calls' = {}
  /\ op' = "acknack_receive"
  /\ UNCHANGED << mr, spdp_liveness_channel >>

\* Discovery's end of the liveness channel: another thread, at any time
SpdpLivenessReceive ==
  /\ spdp_liveness_channel # << >>
  /\ spdp_liveness_channel' = Tail(spdp_liveness_channel)
  /\ op' = "spdp_liveness_receive"
  /\ UNCHANGED << mr, receiving, last_submessage, trail, calls, acknack_channel >>

NextReceiver ==
  \/ (HandleReceivedPacketMalformed /\ UNCHANGED << wvars, nvars, pvars, hvars, svars, datagram >>)
  \/ (HandleParsedMessage /\ UNCHANGED << wvars, nvars, pvars, hvars, svars, datagram >>)
  \/ (HandleSubmessage /\ UNCHANGED << wvars, nvars, pvars, hvars, svars, datagram >>)
  \/ (AckNackReceive /\ UNCHANGED << wvars, nvars, pvars, hvars, svars, datagram >>)
  \/ (SpdpLivenessReceive /\ UNCHANGED << wvars, nvars, pvars, hvars, svars, datagram >>)

SpecReceiver == InitReceiver /\ [][NextReceiver]_vars

\* ------------------------------- one message at a time (SpecDatagram)
\* handle_parsed_message followed from entry to return, the message given up
\* front: its number of submessages and the SecureRTPSPrefix wrappings around
\* it.  The submessages themselves are drawn as the loop reaches them.
MaxLayers == 2

LoopSubmessages ==
  { Submessage("InfoTimestamp", "-", "-", "-", "ts", FALSE, << >>, TRUE),
    Submessage("Data", "w1", ENTITYID_UNKNOWN, "-", "-", FALSE, << >>, TRUE),
    Submessage("AckNack", "-", "-", "-", "-", FALSE, << >>, TRUE),
    Submessage("SecurePrefix", "-", "-", "-", "-", FALSE, << >>, TRUE),
    Submessage("SecurePostfix", "-", "-", "-", "-", FALSE, << >>, TRUE) }

\* the first four statements of handle_parsed_message
enter_parsed_message(m, guid_prefix) ==
  [ reset(m) EXCEPT !.dest_guid_prefix = own_guid_prefix,
                    !.source_guid_prefix = guid_prefix ]

\* decode_rtps_message takes one wrapping off the message
decoded_layers(layers) == layers - 1

after_decode_wrong(d, security_plugins, decode) ==
  IF security_plugins = None \/ decode = "Poisoned"
    THEN [ d EXCEPT !.at = "returned" ]
    ELSE IF decode = "Err"
      THEN [ d EXCEPT !.at = "decoded" ]
      ELSE [ d EXCEPT !.layers = decoded_layers(@), !.at = "decoded" ]

\* where handle_parsed_message goes from its SecureRTPSPrefix branch: it
\* returns without plugins, with a poisoned lock and after a failed decode,
\* and goes on with the decoded message otherwise
after_decode(d, security_plugins, decode) ==
  IF security_plugins = None
    THEN [ d EXCEPT !.at = "returned" ]
    ELSE IF decode # "Ok"
      THEN [ end_scope(lock_plugins(d)) EXCEPT !.at = "returned" ]
      ELSE [ drop_guard(lock_plugins(d)) EXCEPT !.layers = decoded_layers(@),
                                                !.at = "decoded" ]

InitDatagram == InitReceiver

ReceiveDatagram ==
  /\ datagram.at = "returned"
  /\ \E guid_prefix \in HeaderPrefixes, k \in 0..MaxSubmessages, layers \in 0..MaxLayers :
       /\ mr' = enter_parsed_message(mr, guid_prefix)
       /\ datagram' = [ at |-> IF layers > 0 THEN "decode" ELSE "loop",
                        submessages |-> k, left |-> k, layers |-> layers,
                        wrapped |-> layers, previous |-> datagram.submessages,
                        pending |-> Len(mr.secure_receiver_state),
                        held |-> datagram.held, relock |-> datagram.relock,
                        locks |-> 0 ]
       /\ receiving' = (layers = 0)
  /\ last_submessage' = NoSubmessage
  /\ trail' = << >>
  /\ calls' = {}
  /\ op' = "handle_parsed_message"
  /\ UNCHANGED << acknack_channel, spdp_liveness_channel >>
  /\ UNCHANGED << wvars, nvars, pvars, hvars, svars >>

\* the first submessage is a SecureRTPSPrefix: without plugins, with a
\* poisoned lock or a failed decode handle_parsed_message returns; a decoded
\* message is handled by handle_parsed_message in turn
DecodeRtpsMessage ==
  /\ datagram.at = "decode"
  /\ \E decode \in { "Poisoned", "Err", "Ok" } :
       datagram' = after_decode([ datagram EXCEPT !.locks = 0 ],
                                mr.security_plugins, decode)
  /\ op' = "decode_rtps_message"
  /\ UNCHANGED << mr, receiving, last_submessage, trail, calls, acknack_channel,
                  spdp_liveness_channel >>
  /\ UNCHANGED << wvars, nvars, pvars, hvars, svars >>

\* the decoded message is handled by handle_parsed_message itself
HandleDecodedMessage ==
  /\ datagram.at = "decoded"
  /\ \E guid_prefix \in HeaderPrefixes :
       mr' = enter_parsed_message(mr, guid_prefix)
  /\ datagram' = [ datagram EXCEPT !.at = IF datagram.layers > 0 THEN "decode" ELSE "loop",
                                   !.locks = 0 ]
  /\ receiving' = (datagram.layers <= 0)
  /\ op' = "handle_parsed_message"
  /\ UNCHANGED << last_submessage, trail, calls, acknack_channel, spdp_liveness_channel >>
  /\ UNCHANGED << wvars, nvars, pvars, hvars, svars >>

LoopSubmessage ==
  /\ datagram.at = "loop"
  /\ datagram.left > 0
  /\ \E sm \in LoopSubmessages :
       /\ \E answer \in
              IF Len(mr.secure_receiver_state) = 2 /\ sm.kind = "SecurePostfix"
                   /\ mr.security_plugins # None
                THEN SecurityAnswers
                ELSE { [ lock |-> "Ok", preprocess |-> "Err", decoded |-> << >> ] } :
            LET rx == [ mr |-> mr, calls |-> {},
                        acknack_channel |-> acknack_channel,
                        spdp_liveness_channel |-> spdp_liveness_channel,
                        held |-> datagram.held, relock |-> datagram.relock,
                        locks |-> 0 ]
                out == handle_submessage(rx, mr.security_plugins, sm, answer)
            IN /\ mr' = [ out.mr EXCEPT !.submessage_count = @ + 1 ]
               /\ calls' = out.calls
               /\ acknack_channel' = out.acknack_channel
               /\ spdp_liveness_channel' = out.spdp_liveness_channel
               /\ datagram' = [ datagram EXCEPT !.left = @ - 1,
                                                !.held = out.held,
                                                !.relock = out.relock,
                                                !.locks = out.locks ]
       /\ last_submessage' = sm
  /\ op' = "handle_submessage"
  /\ UNCHANGED << receiving, trail >>
  /\ UNCHANGED << wvars, nvars, pvars, hvars, svars >>

\* the loop is through: handle_parsed_message returns
ReturnFromParsedMessage ==
  /\ datagram.at = "loop"
  /\ datagram.left = 0
  /\ datagram' = [ datagram EXCEPT !.at = "returned", !.locks = 0 ]
  /\ receiving' = FALSE
  /\ op' = "return"
  /\ UNCHANGED << mr, last_submessage, trail, calls, acknack_channel,
                  spdp_liveness_channel >>
  /\ UNCHANGED << wvars, nvars, pvars, hvars, svars >>

\* the other ends of the two channels
ChannelsReceive ==
  /\ datagram.at = "returned"
  /\ acknack_channel # << >> \/ spdp_liveness_channel # << >>
  /\ acknack_channel' = << >>
  /\ spdp_liveness_channel' = << >>
  /\ op' = "channels_receive"
  /\ UNCHANGED << mr, receiving, last_submessage, trail, calls, datagram >>
  /\ UNCHANGED << wvars, nvars, pvars, hvars, svars >>

NextDatagram ==
  \/ ReceiveDatagram
  \/ DecodeRtpsMessage
  \/ HandleDecodedMessage
  \/ LoopSubmessage
  \/ ReturnFromParsedMessage
  \/ ChannelsReceive

SpecDatagram == InitDatagram /\ [][NextDatagram]_vars

\* handle_parsed_message runs to completion once called: nothing else runs
\* on the receiver's thread in between
FairDatagram ==
  SpecDatagram /\ WF_vars(DecodeRtpsMessage) /\ WF_vars(HandleDecodedMessage)
    /\ WF_vars(LoopSubmessage) /\ WF_vars(ReturnFromParsedMessage)

\* ------------------------------------------------ history cache (SpecHistory)
\* src/structure/history_cache.rs: a Vec of cache changes in insertion order.
\* A change is its sequence number and a data value that tells two changes
\* with the same sequence number apart.
DataValues == { "a", "b" }
HistoryCacheChanges == [ sequence_number : 1..MaxSn, data_value : DataValues ]

HistoryCacheNew == << >>

add_change(ch, change) == Append(ch, change)

\* Option<&CacheChange>: << >> is None, << c >> is Some(c)
get_change(ch, sequence_number) ==
  LET hits == SelectSeq(ch, LAMBDA x : x.sequence_number = sequence_number)
  IN IF hits = << >> THEN << >> ELSE << Head(hits) >>

remove_change(ch, sequence_number) ==
  SelectSeq(ch, LAMBDA x : x.sequence_number # sequence_number)

get_seq_num_min_wrong(ch) ==
  IF ch = << >> THEN << >> ELSE << ch[1].sequence_number >>

\* iter().map(sequence_number).min_by(cmp): None on an empty Vec, else a
\* pass over the Vec in order that keeps the smaller of the number held
\* and the next one (the one held on a tie)
get_seq_num_min(ch) ==
  LET RECURSIVE min_by(_, _)
      min_by(i, held) ==
        IF i > Len(ch) THEN held
        ELSE min_by(i + 1, IF ch[i].sequence_number < held
                             THEN ch[i].sequence_number ELSE held)
  IN IF ch = << >> THEN << >> ELSE << min_by(2, ch[1].sequence_number) >>

\* max_by(cmp): the same pass keeping the larger (the next one on a tie)
get_seq_num_max(ch) ==
  LET RECURSIVE max_by(_, _)
      max_by(i, held) ==
        IF i > Len(ch) THEN held
        ELSE max_by(i + 1, IF ch[i].sequence_number >= held
                             THEN ch[i].sequence_number ELSE held)
  IN IF ch = << >> THEN << >> ELSE << max_by(2, ch[1].sequence_number) >>

remove_changes_up_to(ch, smallest_seqnum) ==
  SelectSeq(ch, LAMBDA x : x.sequence_number > smallest_seqnum)

len(ch) == Len(ch)

InitHistory ==
  /\ WriterParked /\ NetIdle /\ ProxyIdle /\ ReceiverIdle /\ BitSetIdle
  /\ hc_changes = HistoryCacheNew /\ hc_arg = 0 /\ hc_result = << >>
  /\ op = "new"

AddChange ==
  \E change \in HistoryCacheChanges :
    /\ len(hc_changes) < MaxHistoryLen
    /\ hc_changes' = add_change(hc_changes, change)
    /\ hc_arg' = change.sequence_number
    /\ hc_result' = << >>
    /\ op' = "add_change"

GetChange ==
  \E sequence_number \in 0..(MaxSn + 1) :
    /\ hc_arg' = sequence_number
    /\ hc_result' = get_change(hc_changes, sequence_number)
    /\ op' = "get_change"
    /\ UNCHANGED hc_changes

RemoveChange ==
  \E sequence_number \in 0..(MaxSn + 1) :
    /\ hc_changes' = remove_change(hc_changes, sequence_number)
    /\ hc_arg' = sequence_number
    /\ hc_result' = << >>
    /\ op' = "remove_change"

GetSeqNumMin ==
  /\ hc_arg' = 0
  /\ hc_result' = get_seq_num_min(hc_changes)
  /\ op' = "get_seq_num_min"
  /\ UNCHANGED hc_changes

GetSeqNumMax ==
  /\ hc_arg' = 0
  /\ hc_result' = get_seq_num_max(hc_changes)
  /\ op' = "get_seq_num_max"
  /\ UNCHANGED hc_changes

RemoveChangesUpTo ==
  \E smallest_seqnum \in 0..(MaxSn + 1) :
    /\ hc_changes' = remove_changes_up_to(hc_changes, smallest_seqnum)
    /\ hc_arg' = smallest_seqnum
    /\ hc_result' = << >>
    /\ op' = "remove_changes_up_to"

NextHistory ==
  \/ (AddChange /\ UNCHANGED << wvars, nvars, pvars, rvars, svars >>)
  \/ (GetChange /\ UNCHANGED << wvars, nvars, pvars, rvars, svars >>)
  \/ (RemoveChange /\ UNCHANGED << wvars, nvars, pvars, rvars, svars >>)
  \/ (GetSeqNumMin /\ UNCHANGED << wvars, nvars, pvars, rvars, svars >>)
  \/ (GetSeqNumMax /\ UNCHANGED << wvars, nvars, pvars, rvars, svars >>)
  \/ (RemoveChangesUpTo /\ UNCHANGED << wvars, nvars, pvars, rvars, svars >>)

SpecHistory == InitHistory /\ [][NextHistory]_vars

\* ------------------------------------------- BitSetRef on the wire (SpecBits)
\* src/common/bit_set.rs: a BitSetRef is a BitSet over a BitVec whose storage
\* is a Vec<u32>.  A storage word is written here as the set of its bits that
\* are 1 (bit 0 the least significant), a byte as a number 0..255.
WORD_BITS == 32

InsertValues == { 0, 1, 7, 31, 42 }
Endiannesses == { "little", "big" }

BitSetRefNew == << >>

\* BitSet::insert as tests::bit_set_non_zero_size relies on it: the storage
\* grows to the word holding the value, value v is bit v % 32 of word v / 32
insert(storage, value) ==
  LET word == value \div WORD_BITS + 1
      grown == [ i \in 1..MaxOf(Len(storage), word) |->
                   IF i <= Len(storage) THEN storage[i] ELSE {} ]
  IN [ grown EXCEPT ![word] = @ \cup { value % WORD_BITS } ]

\* the values in the set
members(storage) ==
  UNION { { WORD_BITS * (i - 1) + b : b \in storage[i] } : i \in DOMAIN storage }

\* u32::leading_zeros and u32::rotate_left
leading_zeros(word) == IF word = {} THEN WORD_BITS ELSE WORD_BITS - 1 - Max(word)
rotate_left(word, n) == { (b + n) % WORD_BITS : b \in word }

\* a number as a u32 and back (numbers here stay far below 2^31)
RECURSIVE u32_bits(_, _)
u32_bits(n, b) ==
  IF n = 0 THEN {}
  ELSE (IF n % 2 = 1 THEN { b } ELSE {}) \cup u32_bits(n \div 2, b + 1)

RECURSIVE u32_value(_)
u32_value(word) ==
  IF word = {} THEN 0 ELSE LET b == Max(word) IN 2 ^ b + u32_value(word \ { b })

\* Writer::write_u32 / Reader::read_u32 in the context's endianness
write_u32(word, endianness) ==
  LET byte(j) == u32_value({ k \in 0..7 : 8 * j + k \in word })
  IN IF endianness = "little" THEN << byte(0), byte(1), byte(2), byte(3) >>
     ELSE << byte(3), byte(2), byte(1), byte(0) >>

read_u32(bytes, endianness) ==
  LET at(j) == IF endianness = "little" THEN bytes[j + 1] ELSE bytes[4 - j]
  IN UNION { { 8 * j + k : k \in u32_bits(at(j), 0) } : j \in 0..3 }

\* the word write_to writes for a storage word: rotated left by the number of
\* its leading zeros
written_word(word) == rotate_left(word, leading_zeros(word))

\* write_to: the number of storage words times 32, then the words
write_to(storage, endianness) ==
  write_u32(u32_bits(Len(storage) * WORD_BITS, 0), endianness) \o
  Concat([ i \in DOMAIN storage |-> write_u32(written_word(storage[i]), endianness) ])

\* read_from: number_of_bits, then number_of_bits / 32 words pushed into the
\* storage of a new BitVec
read_from(bytes, endianness) ==
  LET number_of_bits == u32_value(read_u32(SubSeq(bytes, 1, 4), endianness))
  IN [ i \in 1..(number_of_bits \div WORD_BITS) |->
         read_u32(SubSeq(bytes, 4 * i + 1, 4 * i + 4), endianness) ]

InitBits ==
  /\ WriterParked /\ NetIdle /\ ProxyIdle /\ ReceiverIdle /\ HistoryIdle
  /\ bit_set = [ set |-> BitSetRefNew, endianness |-> "-", bytes |-> << >>, read |-> << >> ]
  /\ op = "new"

BitSetInsert ==
  \E value \in InsertValues :
    /\ bit_set' = [ set |-> insert(bit_set.set, value), endianness |-> "-",
                    bytes |-> << >>, read |-> << >> ]
    /\ op' = "insert"

BitSetWriteTo ==
  \E endianness \in Endiannesses :
    /\ bit_set' = [ bit_set EXCEPT !.endianness = endianness,
                                   !.bytes = write_to(bit_set.set, endianness),
                                   !.read = << >> ]
    /\ op' = "write_to"

BitSetReadFrom ==
  /\ bit_set.bytes # << >>
  /\ bit_set' = [ bit_set EXCEPT !.read = read_from(bit_set.bytes, bit_set.endianness) ]
  /\ op' = "read_from"

NextBits ==
  \/ (BitSetInsert /\ UNCHANGED << wvars, nvars, pvars, rvars, hvars >>)
  \/ (BitSetWriteTo /\ UNCHANGED << wvars, nvars, pvars, rvars, hvars >>)
  \/ (BitSetReadFrom /\ UNCHANGED << wvars, nvars, pvars, rvars, hvars >>)

SpecBits == InitBits /\ [][NextBits]_vars

\* ======================================================== properties
\* ---- Writer sequence numbers (Spec)

\* C1: last_seq starts at 0, every publish increases it by exactly 1 (so its
\* values are 1, 2, 3, ... strictly increasing), and no other operation
\* (heartbeat tick, cache cleaning, acknack handling, dispose, drain,
\* matching) changes it.
C1_LastSeqIncreasesByOnePerPublish ==
  [][ IF op' = "publish"
        THEN last_change_sequence_number' = last_change_sequence_number + 1
        ELSE last_change_sequence_number' = last_change_sequence_number ]_vars

C1_Witness ==
  /\ op = "publish"
  /\ last_change_sequence_number = MaxPublish
  /\ DOMAIN sequence_number_to_instant = 1..MaxPublish

AllAcked ==
  \A i \in ReaderIndices : readers[i].highest_acked >= last_change_sequence_number

\* C3: once a reliable Writer has published its N samples, and with ticks,
\* datagram delivery and acknack handling scheduled fairly, eventually every
\* reader proxy has highest_acked >= last_seq.
C3_AckNackConvergence ==
  (last_change_sequence_number = MaxNetPublish) ~> AllAcked

\* ---- what one operation transmitted (Spec)
IsDataTo(d, guid) == d.to = guid /\ d.data # NoSeq

\* sequence numbers of the Data submessages in s addressed to guid, in order
RECURSIVE DataStream(_, _)
DataStream(s, guid) ==
  IF s = << >> THEN << >>
  ELSE (IF IsDataTo(Head(s), guid) THEN << Head(s).data >> ELSE << >>)
       \o DataStream(Tail(s), guid)

\* the same, on one locator kind
RECURSIVE DataStreamOn(_, _, _)
DataStreamOn(s, guid, chan) ==
  IF s = << >> THEN << >>
  ELSE (IF IsDataTo(Head(s), guid) /\ Head(s).chan = chan
          THEN << Head(s).data >> ELSE << >>)
       \o DataStreamOn(Tail(s), guid, chan)

StrictlyAscending(q) == \A a, b \in DOMAIN q : a < b => q[a] < q[b]

\* C4: the Data submessages one heartbeat tick or one drain of
\* send_all_unsend_messages transmits to a reader carry strictly ascending
\* sequence numbers (on each of its locator kinds), and no Data is transmitted
\* to a reader while an earlier sequence number is left unsent for it.
C4_DataAscendingPerReader ==
  \A i \in ReaderIndices : \A chan \in {"unicast", "multicast"} :
    LET q == DataStreamOn(sent, readers[i].remote_reader_guid, chan)
    IN /\ StrictlyAscending(q)
       /\ \A a \in DOMAIN q : \A u \in unsent_changes(readers[i]) : q[a] < u

\* C5: the heartbeat tick that follows a negative acknack transmits Data for
\* every requested sequence number the Writer still holds to the requesting
\* reader (one with a unicast locator), ascending, before Data for any other
\* sample.
C5_TickResendsRequested ==
  [][ op' = "tick" =>
        \A i \in { j \in ReaderIndices : readers[j].unicast_locator_list # {} } :
          LET req == readers[i].requested_changes \cap DOMAIN sequence_number_to_instant
              q == DataStream(sent', readers[i].remote_reader_guid)
          IN /\ \A sn \in req : \E a \in DOMAIN q : q[a] = sn
             /\ \A a, b \in DOMAIN q :
                  /\ (q[a] \in req /\ q[b] \notin req) => a < b
                  /\ (q[a] \in req /\ q[b] \in req /\ a < b) => q[a] < q[b] ]_vars

\* ---- cache cleaning (Spec)
\* the changes of the cache every matched reader has acknowledged
AckedRetained ==
  { c \in dds_cache : change_with_sequence_number_is_acked_by_all(c.sequence_number) }

\* C6: after a cleaning pass with History = KeepLast{d} the number of
\* acked-by-all changes still in the cache is min(N_acked, d), N_acked being
\* their number before the pass; same-instant insertions included.
C6_EvictionDepth ==
  [][ (op' = "clean" /\ qos_policies.history.kind = "KeepLast" /\ readers # << >>) =>
        Cardinality(AckedRetained') =
          MinOf(Cardinality(AckedRetained), qos_policies.history.depth) ]_vars

\* C7: a cleaning pass evicts no change that some matched reader has not
\* acknowledged, and with KeepLast{d} it evicts exactly the (count - d) oldest
\* acked-by-all changes by insertion instant, keeping the newest.
C7_EvictsOldestAckedOnly ==
  [][ (op' = "clean" /\ readers # << >>) =>
        LET evicted == dds_cache \ dds_cache'
            count == Cardinality(AckedRetained)
            d == qos_policies.history.depth
        IN /\ evicted \subseteq AckedRetained
           /\ qos_policies.history.kind = "KeepLast" =>
                /\ Cardinality(evicted) = (IF count > d THEN count - d ELSE 0)
                /\ \A e \in evicted : \A k \in AckedRetained \ evicted :
                     e.instant <= k.instant /\ e.sequence_number < k.sequence_number
     ]_vars

\* C26: a cache-cleaning tick is idempotent: a second handle_cache_cleaning
\* right after one, with no publish or acknack in between, evicts nothing and
\* leaves the history cache and the sequence-to-instant index as they were.
C26_CleaningIdempotent ==
  [][ (op = "clean" /\ op' = "clean") =>
        /\ dds_cache' = dds_cache
        /\ sequence_number_to_instant' = sequence_number_to_instant ]_vars

\* C27: first_seq is the minimum sequence number still in the Writer's
\* history cache, recomputed on eviction: after a cleaning pass that evicts
\* changes the first_sn of the heartbeat the Writer would send is the lowest
\* sequence number still held, and every number held lies in [first, last].
C27_FirstSeqAfterEviction ==
  [][ (op' = "clean" /\ dds_cache' # dds_cache /\ dds_cache' # {}) =>
        LET held == { c.sequence_number : c \in dds_cache' }
        IN /\ get_heartbeat_msg'[1] = Min(held)
           /\ \A sn \in held : get_heartbeat_msg'[1] <= sn /\ sn <= get_heartbeat_msg'[2]
     ]_vars

\* ---- heartbeats (Spec)
\* C32: every Heartbeat the Writer transmits carries a count strictly greater
\* than the count of every Heartbeat it transmitted before; stated for the
\* heartbeats of one operation, in the order they are handed to the sender
\* (successive heartbeats of one tick, to the same or to different readers).
\* One message handed to a reader's unicast and multicast locators counts as
\* one Heartbeat: the two datagrams compared go to different readers or over
\* the same kind of locator.
C32_HeartbeatCountIncreases ==
  \A a \in DOMAIN sent, b \in DOMAIN sent :
    ( /\ a < b
      /\ sent[a].heartbeat # << >> /\ sent[b].heartbeat # << >>
      /\ sent[a].to # sent[b].to \/ sent[a].chan = sent[b].chan ) =>
      sent[a].heartbeat[3] < sent[b].heartbeat[3]

\* C33: in a heartbeat tick every matched reader whose unsent_changes is
\* empty is still sent a message with a Heartbeat and no Data, on its unicast
\* and on its multicast locators, and the tick re-arms the heartbeat timer if
\* and only if heartbeat_period is set.
C33_BareHeartbeat ==
  [][ op' = "tick" =>
        /\ \A i \in DOMAIN readers :
             unsent_changes(readers[i]) = {} =>
               /\ readers[i].unicast_locator_list # {} =>
                    \E k \in DOMAIN sent' :
                      /\ sent'[k].to = readers[i].remote_reader_guid
                      /\ sent'[k].chan = "unicast"
                      /\ sent'[k].heartbeat # << >> /\ sent'[k].data = NoSeq
               /\ readers[i].multicast_locator_list # {} =>
                    \E k \in DOMAIN sent' :
                      /\ sent'[k].to = readers[i].remote_reader_guid
                      /\ sent'[k].chan = "multicast"
                      /\ sent'[k].heartbeat # << >> /\ sent'[k].data = NoSeq
        /\ ("writer_heartbeat" \in timers') <=> (heartbeat_period = "Some") ]_vars

\* a tick before anything was published: the one reader got a bare
\* Heartbeat on its unicast and on its multicast locator
C33_Witness ==
  /\ op = "tick"
  /\ last_change_sequence_number = 0
  /\ Len(readers) = 1
  /\ Len(sent) = 2
  /\ sent[1].chan = "unicast" /\ sent[1].data = NoSeq /\ sent[1].heartbeat # << >>
  /\ sent[2].chan = "multicast" /\ sent[2].data = NoSeq /\ sent[2].heartbeat # << >>
  /\ "writer_heartbeat" \in timers

C35_SendLoopTerminates == (pc = "drain") ~> (pc = "idle")

\* C36: a sequence number leaves a reader proxy's unsent_changes through a
\* heartbeat tick or a send only if a datagram with Data for it was handed to
\* the sender for that reader in the same step, and a reader proxy without
\* unicast locator keeps its unsent changes across a heartbeat tick.
C36_UnsentLeavesOnlySent ==
  [][ (op' = "tick" \/ op' = "drain") =>
        LET handed == IF op' = "tick" THEN DOMAIN sent'
                      ELSE (Len(sent) + 1)..Len(sent')
        IN \A i \in DOMAIN readers :
             /\ \A sn \in unsent_changes(readers[i]) \ unsent_changes(readers'[i]) :
                  \E k \in handed : /\ sent'[k].to = readers[i].remote_reader_guid
                                    /\ sent'[k].data = sn
             /\ (op' = "tick" /\ readers[i].unicast_locator_list = {}) =>
                  unsent_changes(readers'[i]) = unsent_changes(readers[i]) ]_vars

\* ---- publication (SpecAck)
\* C31: after each publish the history cache holds a change under last_seq,
\* the sequence-to-instant index maps last_seq to the instant it was inserted
\* at, and last_seq is in unsent_changes of every matched reader proxy.
C31_PublishRecorded ==
  op = "publish" =>
    /\ last_change_sequence_number \in DOMAIN sequence_number_to_instant
    /\ sequence_number_to_instant[last_change_sequence_number] = clock
    /\ CacheChange(last_change_sequence_number, clock) \in dds_cache
    /\ \A i \in DOMAIN readers :
         last_change_sequence_number \in unsent_changes(readers[i])

\* the second sample was published to a reliable and a best-effort reader
C31_Witness ==
  /\ op = "publish"
  /\ last_change_sequence_number = 2
  /\ Len(readers) = 2
  /\ \E i \in DOMAIN readers : ~ readers[i].is_reliable
  /\ \E i \in DOMAIN readers : readers[i].is_reliable

\* ---- AckNack handling (SpecAck)
\* the Writer's state apart from its reader proxies
WriterButReaders ==
  << qos_policies, last_change_sequence_number, first_change_sequence_number,
     heartbeat_message_counter, sequence_number_to_instant, key_to_instant,
     dds_cache, timers, clock, pc >>

\* C29: handle_ack_nack leaves every reader proxy and all other Writer state
\* unchanged when the Writer is not reliable, and when no matched reader
\* proxy has the GUID {source prefix, acknack.reader_id}: whatever AckNack a
\* step handled, if one of the two holds for it nothing has changed.
C29_AckNackIgnored ==
  [][ op' = "acknack" =>
        \A guid_prefix \in GuidPrefixes, an \in AckNacks :
          ( /\ ~ is_reliable \/ matched_reader_lookup(
                    [guidPrefix |-> guid_prefix, entityId |-> an.reader_id]) = 0
            /\ readers' = readers_after_ack_nack(guid_prefix, an) ) =>
          /\ readers' = readers
          /\ UNCHANGED WriterButReaders ]_vars

\* a best-effort Writer with a matched reader that has unsent changes has
\* handled an AckNack
C29_Witness ==
  /\ op = "acknack"
  /\ ~ is_reliable
  /\ \E i \in DOMAIN readers :
       readers[i].unsent_changes # {} /\ readers[i].highest_acked = 0

\* the AckNacks the Writer is given
WellFormedAckNacks == { an \in AckNacks : WellFormedAckNack(an) }

\* C30: for a reliable Writer and a matched reader, an AckNack with a
\* non-empty set only adds requested changes to that reader's proxy
\* (highest_acked and unsent_changes stay), an AckNack with an empty set only
\* applies acked_changes_set(base), and no other reader proxy is modified:
\* in every state the Writer reaches, for every AckNack it may be given.
C30_AckNackEffect ==
  is_reliable =>
    \A guid \in ReaderGuids :
      LET i == matched_reader_lookup(guid)
      IN i # 0 =>
         \A an \in WellFormedAckNacks :
           LET after == readers_after_ack_nack(guid.guidPrefix, an)
           IN an.reader_id = guid.entityId =>
              /\ DOMAIN after = DOMAIN readers
              /\ \A j \in DOMAIN readers : j # i => after[j] = readers[j]
              /\ IF an.reader_sn_state.set # {}
                   THEN /\ readers[i].requested_changes \subseteq after[i].requested_changes
                        /\ after[i].requested_changes \subseteq
                             readers[i].requested_changes \cup an.reader_sn_state.set
                        /\ after[i] = [ readers[i] EXCEPT !.requested_changes =
                                                            after[i].requested_changes ]
                   ELSE after[i] = acked_changes_set(readers[i], an.reader_sn_state.base)

\* a negative AckNack left a request on one of two reliable reader proxies
\* that both still have an unsent change
C30_Witness ==
  /\ op = "acknack"
  /\ is_reliable
  /\ Len(readers) = 2
  /\ readers[1].requested_changes # {}
  /\ readers[1].unsent_changes # {}
  /\ readers[2].requested_changes = {}
  /\ readers[2].unsent_changes # {}

\* C37: cache cleaning never evicts a change whose sequence number is still
\* in some matched reader proxy's unsent_changes or requested_changes: every
\* sequence number a proxy still owes its reader has a change in the history
\* cache and an entry in the sequence-to-instant index, for best-effort and
\* for reliable readers.
C37_OwedChangesHeld ==
  \A i \in DOMAIN readers :
    \A sn \in unsent_changes(readers[i]) \cup readers[i].requested_changes :
      /\ sn \in DOMAIN sequence_number_to_instant
      /\ \E c \in dds_cache : c.sequence_number = sn

\* C19: every sequence number in a reader proxy's requested_changes lies in
\* [first_change_sequence_number, last_change_sequence_number] and is still
\* held by the Writer, whatever publishes, cleaning passes and acknacks
\* happened before (stated for reliable reader proxies, the ones that take
\* part in acknowledgement).
C19_RequestedChangesHeld ==
  \A i \in DOMAIN readers :
    readers[i].is_reliable =>
      \A s \in readers[i].requested_changes :
        /\ first_change_sequence_number <= s
        /\ s <= last_change_sequence_number
        /\ s \in DOMAIN sequence_number_to_instant

\* ---- writer proxy (SpecProxy)
\* the range the specification gives missing_changes: [available_min, h),
\* starting at 1 when nothing has been received
SpecLowerBound(ch) == IF DOMAIN ch = {} THEN 1 ELSE MaxOf(1, Min(DOMAIN ch))
SpecMissing(ch, h) == { s \in SpecLowerBound(ch)..(h - 1) : s \notin DOMAIN ch }

\* C8: missing_changes(h) returns exactly the sequence numbers of
\* [available_min, h) that are not keys of received, ascending, nothing else.
C8_MissingSetCorrect ==
  op = "missing_changes" => wp_result = SortedSeq(SpecMissing(changes, wp_arg))

\* C9: changes_are_missing(hb_last) is true iff some sequence number of
\* [available_min, hb_last) is not in received, and it agrees with
\* missing_changes(hb_last) being non-empty.
C9_ChangesAreMissingIff ==
  op = "changes_are_missing" =>
    /\ wp_result <=> (SpecMissing(changes, wp_arg) # {})
    /\ wp_result <=> (missing_changes(changes, wp_arg) # << >>)

\* C10: missing_changes scans from max(1, available_min), from 1 when
\* received is empty: nothing below that bound, and never sequence number 0,
\* is reported missing.
C10_LowerBoundAtLeastOne ==
  op = "missing_changes" =>
    \A i \in DOMAIN wp_result :
      wp_result[i] >= SpecLowerBound(changes) /\ wp_result[i] # NoSeq

\* C11: after irrelevant_changes_up_to(s) no key below s remains in the
\* received map, every key at or above s remains with its instant unchanged,
\* and the returned list holds exactly the instants of the removed keys (one
\* entry per removed key).
C11_GapApplication ==
  [][ op' = "irrelevant_changes_up_to" =>
        LET removed == { s \in DOMAIN changes : s < wp_arg' } IN
          /\ \A s \in DOMAIN changes' : s >= wp_arg'
          /\ DOMAIN changes' \subseteq DOMAIN changes
          /\ \A s \in DOMAIN changes :
               s >= wp_arg' => s \in DOMAIN changes' /\ changes'[s] = changes[s]
          /\ Len(wp_result') = Cardinality(removed)
          /\ \A t \in Instants :
               Cardinality({ i \in DOMAIN wp_result' : wp_result'[i] = t })
                 = Cardinality({ s \in removed : changes[s] = t }) ]_vars

\* a Gap that removed two received changes and kept a third
C11_Witness ==
  /\ op = "irrelevant_changes_up_to"
  /\ Len(wp_result) = 2
  /\ wp_arg \in DOMAIN changes

\* ---- message receiver (SpecReceiver)
\* the receiver fields a datagram can set, apart from the secure state and
\* the submessage count
Interpreted(m) ==
  << m.source_guid_prefix, m.dest_guid_prefix, m.unicast_reply_locator_list,
     m.multicast_reply_locator_list, m.source_timestamp >>

NothingDispatched ==
  /\ calls' = {}
  /\ acknack_channel' = acknack_channel
  /\ spdp_liveness_channel' = spdp_liveness_channel

\* C12: whatever the previous datagram contained, the processing of a
\* datagram starts with dest_guid_prefix = own_guid_prefix, no source
\* timestamp and empty unicast and multicast reply locator lists.
C12_ReceiverReset ==
  [][ op' = "handle_parsed_message" =>
        /\ mr'.dest_guid_prefix = own_guid_prefix
        /\ mr'.source_timestamp = None
        /\ mr'.unicast_reply_locator_list = {}
        /\ mr'.multicast_reply_locator_list = {} ]_vars

\* a datagram begins after one that carried an InfoSource and an AckNack
\* (the entry it left in the acknack channel) and more
C12_Witness ==
  /\ op = "handle_parsed_message"
  /\ receiving
  /\ acknack_channel = << << "src2", "AckNack" >> >>
  /\ mr.source_guid_prefix = "remote"
  /\ mr.dest_guid_prefix = own_guid_prefix
  /\ mr.source_timestamp = None
  /\ mr.unicast_reply_locator_list = {}

\* C13: the secure receiver follows the transition table.  From None a
\* SecurePrefix moves to Prefix(p) and anything else leaves None; from
\* Prefix(p) any submessage s is buffered, neither dispatched nor applied to
\* the receiver state, and the state becomes SecureSubmessage(p, s); from
\* SecureSubmessage(p, s) a SecurePostfix returns to None (after the decode)
\* and anything else drops the triad and returns to None.
C13_SecureTransitionTable ==
  [][ op' = "handle_submessage" =>
        LET state == mr.secure_receiver_state
            next == mr'.secure_receiver_state
            sm == last_submessage'
        IN /\ (Len(state) = 0 /\ sm.kind = "SecurePrefix") =>
                next = << sm >> /\ NothingDispatched
           /\ (Len(state) = 0 /\ sm.kind # "SecurePrefix") => next = << >>
           /\ Len(state) = 1 =>
                /\ next = << state[1], sm >>
                /\ NothingDispatched
                /\ Interpreted(mr') = Interpreted(mr)
           /\ (Len(state) = 2 /\ sm.kind = "SecurePostfix") => next = << >>
           /\ (Len(state) = 2 /\ sm.kind # "SecurePostfix") =>
                /\ next = << >>
                /\ NothingDispatched
                /\ Interpreted(mr') = Interpreted(mr) ]_vars

\* C14: in a datagram SecurePrefix, X, Y, SecurePostfix where Y is not a
\* SecurePostfix, X is buffered and Y dropped without either reaching a
\* Reader or a channel, the secure state is None after Y, and the trailing
\* SecurePostfix is discarded in state None.
C14_SecureSequenceError ==
  [][ (op' = "handle_submessage" /\ Len(trail') \in 2..4
         /\ (Len(trail') >= 3 => trail'[3] # "SecurePostfix")
         /\ (Len(trail') = 4 => trail'[4] = "SecurePostfix")) =>
        /\ NothingDispatched
        /\ Interpreted(mr') = Interpreted(mr)
        /\ Len(mr'.secure_receiver_state) = (IF Len(trail') = 2 THEN 2 ELSE 0) ]_vars

C14_Witness ==
  /\ op = "handle_submessage"
  /\ trail = << "SecurePrefix", "Data", "Data", "SecurePostfix" >>
  /\ calls = {}
  /\ mr.secure_receiver_state = << >>
  /\ mr.submessage_count = 4

\* C15: an entity submessage is dispatched only while dest_guid_prefix is
\* own_guid_prefix or UNKNOWN: once an InfoDestination of the datagram has
\* set another prefix, handling a submessage invokes no Reader handler and
\* sends nothing on the acknack or the SPDP liveness channel.
C15_DestinationGating ==
  [][ (op' = "handle_submessage"
         /\ mr.dest_guid_prefix \notin { own_guid_prefix, GUID_PREFIX_UNKNOWN }) =>
        NothingDispatched ]_vars

\* a Data for a local Reader was dropped behind an InfoDestination for
\* another participant
C15_Witness ==
  /\ op = "handle_submessage"
  /\ mr.submessage_count = 2
  /\ mr.dest_guid_prefix = "other"
  /\ last_submessage.kind = "Data"
  /\ last_submessage.reader_id = "r1"
  /\ last_submessage.payload_ok
  /\ calls = {}

\* C16: handling an AckNack appends exactly one entry (source_guid_prefix,
\* acknack) to the acknack channel when it has room; when the channel is full
\* the AckNack is dropped, the channel is unchanged, and the receiver goes on
\* with the next submessage.
C16_AckNackBackPressure ==
  [][ (op' = "handle_submessage" /\ last_submessage'.kind = "AckNack"
         /\ Len(mr.secure_receiver_state) = 0
         /\ mr.dest_guid_prefix = own_guid_prefix) =>
        /\ acknack_channel' =
             IF Len(acknack_channel) < MaxChannel
               THEN Append(acknack_channel, << mr.source_guid_prefix, "AckNack" >>)
               ELSE acknack_channel
        /\ receiving'
        /\ mr'.submessage_count = mr.submessage_count + 1 ]_vars

\* the datagram InfoSource, AckNack met a channel still holding the entry of
\* an earlier datagram: the AckNack of "src2" was dropped
C16_Witness ==
  /\ op = "handle_submessage"
  /\ last_submessage.kind = "AckNack"
  /\ mr.submessage_count = 2
  /\ mr.source_guid_prefix = "src2"
  /\ mr.dest_guid_prefix = own_guid_prefix
  /\ acknack_channel = << << "remote", "AckNack" >> >>
  /\ receiving

\* C17: a datagram shorter than the header or failing to parse is discarded:
\* nothing is dispatched, and the receiver state is reset, keeping nothing of
\* a previous datagram (one whose submessages were handled): not its source
\* or destination prefix, timestamp, reply locators or submessage count.
C17_MalformedDatagramResets ==
  [][ op' = "malformed" =>
        /\ NothingDispatched
        /\ mr.submessage_count > 0 => mr' = reset(mr) ]_vars

\* C20: a writer submessage with reader_id UNKNOWN goes to every Reader
\* matched to its writer_id (and a Data of the SPDP writer to the built-in
\* SPDP Reader, a Data of the stateless writer to the stateless Reader) and
\* to no other Reader; with a known reader_id it goes to that Reader only,
\* and to none when there is no such Reader.
RoutedTo(sm) ==
  LET matched == { r \in DOMAIN available_readers : sm.writer_id \in available_readers[r] }
      builtin ==
        { r \in DOMAIN available_readers :
            \/ sm.writer_id = SPDP_BUILTIN_PARTICIPANT_WRITER
                 /\ r = SPDP_BUILTIN_PARTICIPANT_READER
            \/ sm.writer_id = P2P_BUILTIN_PARTICIPANT_STATELESS_WRITER
                 /\ r = P2P_BUILTIN_PARTICIPANT_STATELESS_READER }
  IN IF sm.reader_id = ENTITYID_UNKNOWN
       THEN [ must |-> matched \cup (IF sm.kind = "Data" THEN builtin ELSE {}),
              may |-> matched \cup (IF sm.kind \in { "Data", "DataFrag" }
                                      THEN builtin ELSE {}) ]
       ELSE [ must |-> { sm.reader_id } \cap DOMAIN available_readers,
              may |-> { sm.reader_id } \cap DOMAIN available_readers ]

C20_EntityRouting ==
  [][ (op' = "handle_submessage" /\ last_submessage'.kind \in WriterKinds
         /\ last_submessage'.payload_ok
         /\ Len(mr.secure_receiver_state) = 0
         /\ mr.dest_guid_prefix = own_guid_prefix) =>
        LET got == { c.reader : c \in calls' }
        IN /\ RoutedTo(last_submessage').must \subseteq got
           /\ got \subseteq RoutedTo(last_submessage').may ]_vars

\* C21: every dispatched Data of the SPDP built-in participant writer offers
\* one liveness signal carrying the current source_guid_prefix to the
\* discovery channel, whether or not a Reader took the Data (no matching
\* Reader, undecodable payload); a full channel drops the signal and the
\* receiver goes on.
C21_SpdpLivenessBypass ==
  [][ (op' = "handle_submessage" /\ last_submessage'.kind = "Data"
         /\ last_submessage'.writer_id = SPDP_BUILTIN_PARTICIPANT_WRITER
         /\ Len(mr.secure_receiver_state) = 0
         /\ mr.dest_guid_prefix = own_guid_prefix) =>
        /\ spdp_liveness_channel' =
             IF Len(spdp_liveness_channel) < MaxChannel
               THEN Append(spdp_liveness_channel, mr.source_guid_prefix)
               ELSE spdp_liveness_channel
        /\ receiving'
        /\ mr'.submessage_count = mr.submessage_count + 1 ]_vars

\* an SPDP Data for a Reader that does not exist still left its signal
C21_Witness ==
  /\ op = "handle_submessage"
  /\ last_submessage.kind = "Data"
  /\ last_submessage.writer_id = SPDP_BUILTIN_PARTICIPANT_WRITER
  /\ last_submessage.reader_id = "r9"
  /\ calls = {}
  /\ mr.submessage_count = 2
  /\ mr.source_guid_prefix = "src2"
  /\ mr.dest_guid_prefix = own_guid_prefix
  /\ spdp_liveness_channel = << "src2" >>

\* C22: a NackFrag that passes the destination check is forwarded on the
\* bounded acknack channel, tagged with source_guid_prefix, as an AckNack is:
\* one entry appended when the channel has room.
C22_NackFragForwarded ==
  [][ (op' = "handle_submessage" /\ last_submessage'.kind = "NackFrag"
         /\ Len(mr.secure_receiver_state) = 0
         /\ mr.dest_guid_prefix = own_guid_prefix
         /\ Len(acknack_channel) < MaxChannel) =>
        acknack_channel' =
          Append(acknack_channel, << mr.source_guid_prefix, "NackFrag" >>) ]_vars

C24_SubmessageCountPerDatagram ==
  (op = "return" /\ datagram.wrapped = 0) =>
    mr.submessage_count = datagram.submessages

\* a datagram with 4 submessages, then one with 2: the count is 2
C24_Witness ==
  /\ op = "return"
  /\ datagram.wrapped = 0
  /\ datagram.previous = 4
  /\ datagram.submessages = 2
  /\ mr.submessage_count = 2

\* C39: the secure receiver state is None when the first submessage of a
\* datagram is handled, whatever the datagram before left pending, so the
\* first submessage is never taken as the submessage after an earlier
\* SecurePrefix nor as the SecurePostfix closing an earlier pair.
C39_SecureStatePerDatagram ==
  /\ (\/ datagram.at \in { "decode", "decoded" }
      \/ (datagram.at = "loop" /\ datagram.left = datagram.submessages))
       => mr.secure_receiver_state = << >>
  /\ (datagram.at = "loop" /\ datagram.submessages > 0
        /\ datagram.left = datagram.submessages - 1)
       => /\ Len(mr.secure_receiver_state) <= 1
          /\ mr.secure_receiver_state # << >> => last_submessage.kind = "SecurePrefix"

\* the datagram before ended on a SecurePrefix and a buffered submessage, and
\* the first submessage of this one, a SecurePostfix, has been handled
C39_Witness ==
  /\ datagram.pending = 2
  /\ datagram.at = "loop"
  /\ datagram.left = datagram.submessages - 1
  /\ op = "handle_submessage"
  /\ last_submessage.kind = "SecurePostfix"
  /\ mr.secure_receiver_state = << >>
  /\ calls = {}

\* C40: the receiver never locks the security plugins while it holds their
\* guard, and holds no guard once handle_parsed_message has returned nor
\* when it goes on with a decoded message or with the next submessage: the
\* guard is dropped before every nested handler, which may lock again.
C40_NoSelfDeadlock ==
  /\ ~ datagram.relock
  /\ datagram.at \in { "returned", "decoded", "loop" } => ~ datagram.held

\* a secured Data: handle_secure_submessage locked to decode it, and the
\* nested handle_writer_submessage locked again for the payload
C40_Witness ==
  /\ op = "handle_submessage"
  /\ last_submessage.kind = "SecurePostfix"
  /\ datagram.locks = 2
  /\ calls # {}
  /\ ~ datagram.held

\* ---- history cache (SpecHistory)
\* C25: get_seq_num_min and get_seq_num_max return the smallest and the
\* largest sequence number among the changes in the cache, in whatever order
\* they were added and whatever was removed before, and None exactly when
\* the cache is empty.
C25_SeqNumMinMax ==
  LET held == { hc_changes[i].sequence_number : i \in DOMAIN hc_changes }
  IN /\ op = "get_seq_num_min" =>
          IF held = {} THEN hc_result = << >>
          ELSE /\ Len(hc_result) = 1
               /\ hc_result[1] \in held
               /\ \A sn \in held : hc_result[1] <= sn
     /\ op = "get_seq_num_max" =>
          IF held = {} THEN hc_result = << >>
          ELSE /\ Len(hc_result) = 1
               /\ hc_result[1] \in held
               /\ \A sn \in held : hc_result[1] >= sn

\* the smallest number was added last, into a cache holding larger ones
C25_Witness ==
  /\ op = "get_seq_num_min"
  /\ Len(hc_changes) = MaxHistoryLen
  /\ hc_changes[1].sequence_number > hc_changes[Len(hc_changes)].sequence_number
  /\ hc_result = << hc_changes[Len(hc_changes)].sequence_number >>

\* C38: the history cache holds at most one change per sequence number of
\* its writer: after any add_change and remove_change no two entries carry
\* the same sequence number, so get_change finds a unique change.
C38_OneChangePerSeqNum ==
  \A i, j \in DOMAIN hc_changes :
    hc_changes[i].sequence_number = hc_changes[j].sequence_number => i = j

\* C18: remove_changes_up_to(n) removes every change with sequence number
\* strictly less than n and keeps, in order, every change with sequence
\* number n or greater, the change numbered n included.
C18_RemoveUpToKeepsN ==
  [][ op' = "remove_changes_up_to" =>
        hc_changes' = SelectSeq(hc_changes, LAMBDA x : x.sequence_number >= hc_arg') ]_vars

\* ---- BitSetRef on the wire (SpecBits)
\* the words of a set as they are, in the given endianness
RawWords(storage, endianness) ==
  write_u32(u32_bits(Len(storage) * WORD_BITS, 0), endianness) \o
  Concat([ i \in DOMAIN storage |-> write_u32(storage[i], endianness) ])

\* C28: BitSet serialization round-trips in both endiannesses: write_to
\* writes the number of words times 32 followed by the raw, unrotated storage
\* words, and reading back what it wrote gives a set equal to the one written.
C28_BitSetRoundTrip ==
  /\ op = "write_to" =>
       bit_set.bytes = RawWords(bit_set.set, bit_set.endianness)
  /\ op = "read_from" => members(bit_set.read) = members(bit_set.set)

====
